---- MODULE Spec2Model ----
(***************************************************************************)
(* Model of the SIP softphone control plane (sip_client.py, api.py,        *)
(* legacy/sip_client.py, models.py) and of the call-centre backend         *)
(* (backend/calls/views.py, models.py).                                    *)
(*                                                                         *)
(* Strings that the code parses or formats (SIP URIs) are sequences of     *)
(* tokens, e.g. "sip:bob@pbx" is <<"sip", ":", "bob", "@", "pbx">>.        *)
(* Timestamps are naturals read from the clock `now`; 0 stands for None.   *)
(***************************************************************************)
EXTENDS Integers, Sequences, FiniteSets, TLC

\* ---------------------------------------------------------------- bounds
MaxCalls == 1
MaxTime == 2
MaxSessions == 2
MaxLogs == 2
MaxJobs == 2
MaxBuilt == 3
MaxRinging == 1

\* ------------------------------------------------------------ vocabulary
None == 0
Callers == {1, 2}
Domain == <<"pbx">>
Destinations == {<<"1001">>, <<"sip", ":", "1001", "@", "pbx">>}
BadDestinations == {<<>>, <<"sip", ":">>}
IncomingUris == {<<"sip", ":", "alice", "@", "pbx">>, <<"anonymous">>}
RecOutcomes == {"ok", "mkdir_fail", "start_fail"}
DtmfInputs == {<<>>, <<"1", "2", "3">>, <<"A", "*", "#">>, <<"1", "x">>}
NoLocals == [dest |-> <<>>, rec |-> 0]
NoPath == [set |-> FALSE, remote |-> <<>>, ts |-> 0]
\* A str is a sequence of naturals: 0 is one whitespace character, n > 0
\* a run of n characters that are not whitespace.  NoText is Python's None.
NoText == [set |-> FALSE, body |-> <<>>]
\* a backend worker that is not inside hangup_call; inside it the worker
\* holds the CallSession object it read (row), and from the save on the
\* duration of that object and what ARI answered
NoClosing ==
    [stage |-> "none", call |-> 0,
     row |-> [call_id |-> 0, channel_id |-> "", status |-> "none",
              started_at |-> 0, ended_at |-> 0],
     duration |-> 0, success |-> TRUE]

VARIABLES
    cap,           \* how many calls (and call records) a run may create
    mode,          \* "real": pjsua2 imported; "demo": legacy client without
                   \* pjsua2; "disabled": current client without pjsua2;
                   \* "noclient": api.sip_client is None (SIPClient()
                   \* raised in startup_event)
    account,       \* SIPClient.account is not None
    config,        \* [auto_record, auto_answer] from config.yaml
    calls,         \* sequence of MyCall / MockCall objects ever constructed
    current_call,  \* account.current_call: index into calls, or None
    history,       \* committed rows of table call_history (what a new
                   \* store session reads)
    mem,           \* the CallHistory objects held by the calls: attribute
                   \* values in memory and the store session that owns them
    now,           \* wall clock
    pc,            \* per caller: position inside SIPClient.make_call
    pend,          \* per caller: locals of the make_call in progress
    ret,           \* per caller: what the last make_call returned
    out,           \* message printed by the step just taken when it was
                   \* answer_call, hangup or an in-call control, the
                   \* stateText printed when it was onCallState; "none"
                   \* otherwise
    req,           \* the pjsua2 request the step just taken made on the
                   \* engine; "none" when it made none
    http,          \* status of the response api.py gave to the request the
                   \* step just taken completed; 0 when it completed none
    sessions,      \* backend: CallSession rows by call_id
    calllog,       \* backend: CallLog rows
    resp,          \* backend: status of the last response of views.py
    closing,       \* backend: per worker, the hangup_call request that has
                   \* saved its CallSession and has its CallLog still to
                   \* create
    ai,            \* the AIAnalytics instance of the process
    jobs,          \* the worker threads process_call_async has started
    last,          \* the last direct call of analyze_sentiment or
                   \* generate_summary: its argument and what came back
    analytics,     \* module ai_analytics: the global `ai_analytics`, the
                   \* AIAnalytics objects constructed so far, and each
                   \* thread's position in and result of get_ai_analytics
    boot           \* the run of call.main and of api.startup_event

vars == <<cap, mode, account, config, calls, current_call, history, mem, now,
          pc, pend, ret, out, req, http, sessions, calllog, resp, closing,
          ai, jobs, last, analytics, boot>>

phoneVars == <<cap, mode, account, config, calls, current_call, history, mem,
               pc, pend, ret, out, req, http>>
backendVars == <<sessions, calllog, resp, closing>>
aiVars == <<ai, jobs, last>>
procVars == <<analytics, boot>>

\* ------------------------------------------------------- string helpers
\* str.startswith('sip:')
StartsWithSip(s) == Len(s) >= 2 /\ s[1] = "sip" /\ s[2] = ":"

\* make_call: destination formatting
FormatDestination(d) ==
    IF StartsWithSip(d) THEN d ELSE <<"sip", ":">> \o d \o <<"@">> \o Domain

\* str.split(sep): the list of pieces between occurrences of sep
RECURSIVE SplitFrom(_, _, _, _)
SplitFrom(s, sep, i, cur) ==
    IF i > Len(s) THEN <<cur>>
    ELSE IF s[i] = sep THEN <<cur>> \o SplitFrom(s, sep, i + 1, <<>>)
    ELSE SplitFrom(s, sep, i + 1, Append(cur, s[i]))

Split(s, sep) == SplitFrom(s, sep, 1, <<>>)

\* start_recording: ci.remoteUri.split(':')[1] raises IndexError when the
\* URI holds no ':'
RemoteParses(uri) == Len(Split(uri, ":")) >= 2
RemoteOf(uri) ==
    IF RemoteParses(uri) THEN Split(Split(uri, ":")[2], "@")[1] ELSE <<>>

\* ------------------------------------------------------------ the store
\* CallHistory(remote_uri, direction, status, start_time) after add+commit
NewRow(uri, dir, st, t) ==
    [remote_uri |-> uri, direction |-> dir, status |-> st, start_time |-> t,
     end_time |-> None, duration |-> 0, recording_path |-> NoPath,
     transcript |-> NoText, sentiment |-> NoText, summary |-> NoText]

\* The mapped object of a row: its attributes in memory and the store
\* session it is attached to ("local": the session make_call opened and
\* dropped, "account": MyAccount.db_session, "closed": none).
NewObj(row, sess) ==
    [status |-> row.status, start_time |-> row.start_time,
     end_time |-> row.end_time, duration |-> row.duration,
     recording_path |-> row.recording_path, session |-> sess]

\* Session.commit() writes the attributes of the objects attached to that
\* session into their rows.
Flushed(row, obj) ==
    [row EXCEPT !.status = obj.status, !.start_time = obj.start_time,
                !.end_time = obj.end_time, !.duration = obj.duration,
                !.recording_path = obj.recording_path]

Commit(sess) ==
    [r \in DOMAIN history |->
        IF mem[r].session = sess THEN Flushed(history[r], mem[r])
        ELSE history[r]]

\* MyCall.db_session is a session of its own (get_session() in __init__);
\* no CallHistory object is ever added to it, so its commit writes nothing.
CommitCallSession == history

\* api.get_call_details: a new session reads the committed row
get_call_details(id) == history[id]

\* ------------------------------------------------------------- sessions
\* MyCall.__init__; `answer` is the code last passed to answer(),
\* `capture` whether startRecording returned, `stamps` how often
\* call_start_time was assigned, `recordings` how often start_recording
\* was called, and `cb` the state whose onCallState is running and has its
\* last line, the write of account.current_call, still to do.
NewCall(dir, uri, st, rec, code) ==
    [kind |-> "real", direction |-> dir, remote_uri |-> uri, state |-> st,
     on_hold |-> FALSE, is_muted |-> FALSE, recording_id |-> None,
     call_start_time |-> None, call_record |-> rec, answer |-> code,
     hangup_sent |-> FALSE, capture |-> FALSE, stopped |-> FALSE,
     start_time |-> None, stamps |-> 0, recordings |-> 0, cb |-> "none"]

\* legacy make_call: MockCall()
MockCall(uri, t) ==
    [kind |-> "mock", direction |-> "outbound", remote_uri |-> uri,
     state |-> "CONFIRMED", on_hold |-> FALSE, is_muted |-> FALSE,
     recording_id |-> None, call_start_time |-> None, call_record |-> None,
     answer |-> 0, hangup_sent |-> FALSE, capture |-> FALSE,
     stopped |-> FALSE, start_time |-> t, stamps |-> 0, recordings |-> 0,
     cb |-> "none"]

\* The states the engine can report next for a call (ci.stateText).
EngineNext(call) ==
    IF call.kind # "real" \/ call.state = "DISCONNECTED" THEN {}
    ELSE IF call.hangup_sent THEN {"DISCONNECTED"}
    ELSE {"DISCONNECTED"} \cup
         CASE call.state = "NULL" -> {"CALLING"}
           [] call.state = "CALLING" -> {"EARLY", "CONFIRMED"}
           [] call.state = "INCOMING" ->
                  IF call.answer = 200 THEN {"CONFIRMED"} ELSE {"EARLY"}
           [] call.state = "EARLY" ->
                  IF call.direction = "outbound" \/ call.answer = 200
                  THEN {"CONFIRMED"} ELSE {}
           [] call.state = "CONFIRMED" -> {"CONFIRMED"}
           [] OTHER -> {}

\* Session states of the specification in terms of the client's objects
Ringing(call) == call.state \in {"CALLING", "INCOMING", "EARLY"}
Connected(call) == call.state = "CONFIRMED" /\ ~call.on_hold
Held(call) == call.state = "CONFIRMED" /\ call.on_hold
Active(call) == Ringing(call) \/ Connected(call) \/ Held(call)
\* a mock call replaced or hung up is no longer a session
Live(c) == calls[c].kind = "real" \/ current_call = c
ActiveCalls == {c \in DOMAIN calls : Live(c) /\ Active(calls[c])}

PJSUA2_AVAILABLE == mode = "real"

\* the engine's worker thread delivers one callback at a time
EngineIdle == \A k \in DOMAIN calls : calls[k].cb = "none"

\* ------------------------------------------------------ ai_analytics.py
SummaryMinWords == 50
SentimentCap == 512
SummaryCap == 1024

Str(body) == [set |-> TRUE, body |-> body]

\* bool(text): None and "" are false
Truthy(text) == text.set /\ text.body # <<>>

\* the characters of body[lo..hi], summed over the two halves of the range
RECURSIVE LenBetween(_, _, _)
LenBetween(body, lo, hi) ==
    IF lo > hi THEN 0
    ELSE IF lo = hi THEN (IF body[lo] = 0 THEN 1 ELSE body[lo])
    ELSE LET mid == (lo + hi) \div 2
         IN LenBetween(body, lo, mid) + LenBetween(body, mid + 1, hi)

\* len(text); a body of blanks and one-letter runs has one character per
\* entry
TextLen(body) ==
    IF \A i \in DOMAIN body : body[i] <= 1 THEN Len(body)
    ELSE LenBetween(body, 1, Len(body))

\* len(text.split()): the maximal runs of non-whitespace characters
WordCount(body) ==
    Cardinality({i \in DOMAIN body :
                    body[i] > 0 /\ (i = 1 \/ body[i - 1] = 0)})

\* text[:k]: the first k characters, cut inside a run where needed
RECURSIVE Truncate(_, _)
Truncate(body, k) ==
    IF body = <<>> \/ k <= 0 THEN <<>>
    ELSE IF Len(body) <= k /\ TextLen(body) <= k THEN body
    ELSE IF Len(body) = 1
    THEN (IF body[1] = 0 \/ body[1] <= k THEN body ELSE <<k>>)
    ELSE LET h == Len(body) \div 2
             front == SubSeq(body, 1, h)
             rest == SubSeq(body, h + 1, Len(body))
         IN IF TextLen(front) >= k THEN Truncate(front, k)
            ELSE front \o Truncate(rest, k - TextLen(front))

\* n one-letter words separated by single blanks
Words(n) == [i \in 1..(2 * n - 1) |-> IF i % 2 = 1 THEN 1 ELSE 0]

\* "Call too short for summary"
TooShort == Str(<<4, 0, 3, 0, 5, 0, 3, 0, 7>>)

\* AIAnalytics.__init__: a disabled instance returns before the two model
\* attributes are assigned; an enabled one holds None or a loaded pipeline
\* in each.
AIAnalytics(enabled, speech, transcription, sentiment, summary) ==
    [enabled |-> enabled, speech |-> speech, transcription |-> transcription,
     sentiment_analyzer |-> IF enabled THEN sentiment ELSE "unset",
     summarizer |-> IF enabled THEN summary ELSE "unset"]

Instances ==
    {AIAnalytics(e, sp, tr, sa, su) :
        e \in BOOLEAN, sp \in BOOLEAN, tr \in BOOLEAN,
        sa \in {"None", "pipeline"}, su \in {"None", "pipeline"}}

\* what the speech service or a transformers pipeline answers: a str, or
\* an exception
Replies(texts) == [raises : BOOLEAN, text : texts]

\* transcribe_audio
transcribe_audio(inst, reply) ==
    IF ~inst.speech THEN NoText
    ELSE IF ~inst.transcription THEN NoText
    ELSE IF reply.raises THEN NoText
    ELSE reply.text

analyze_sentiment_uncaught(inst, text, reply) ==
    IF inst.sentiment_analyzer = "unset"
    THEN [ret |-> NoText, raises |-> TRUE, sent |-> NoText]
    ELSE IF inst.sentiment_analyzer = "None" \/ ~Truthy(text)
    THEN [ret |-> NoText, raises |-> FALSE, sent |-> NoText]
    ELSE [ret |-> IF reply.raises THEN NoText ELSE reply.text,
          raises |-> reply.raises,
          sent |-> Str(Truncate(text.body, SentimentCap))]

\* analyze_sentiment: the value returned, whether an exception leaves the
\* method and the text handed to the pipeline (NoText: not called)
analyze_sentiment(inst, text, reply) ==
    IF inst.sentiment_analyzer = "unset"
    THEN [ret |-> NoText, raises |-> TRUE, sent |-> NoText]
    ELSE IF inst.sentiment_analyzer = "None" \/ ~Truthy(text)
    THEN [ret |-> NoText, raises |-> FALSE, sent |-> NoText]
    ELSE [ret |-> IF reply.raises THEN NoText ELSE reply.text,
          raises |-> FALSE,
          sent |-> Str(Truncate(text.body, SentimentCap))]

\* generate_summary
\* the transcript cut to the cap before its words are counted
generate_summary_cut_first(inst, text, reply) ==
    IF inst.summarizer = "unset"
    THEN [ret |-> NoText, raises |-> TRUE, sent |-> NoText]
    ELSE IF inst.summarizer = "None" \/ ~Truthy(text)
    THEN [ret |-> NoText, raises |-> FALSE, sent |-> NoText]
    ELSE IF WordCount(Truncate(text.body, SummaryCap)) < SummaryMinWords
    THEN [ret |-> TooShort, raises |-> FALSE, sent |-> NoText]
    ELSE [ret |-> IF reply.raises THEN NoText ELSE reply.text,
          raises |-> FALSE,
          sent |-> Str(Truncate(text.body, SummaryCap))]

generate_summary(inst, text, reply) ==
    IF inst.summarizer = "unset"
    THEN [ret |-> NoText, raises |-> TRUE, sent |-> NoText]
    ELSE IF inst.summarizer = "None" \/ ~Truthy(text)
    THEN [ret |-> NoText, raises |-> FALSE, sent |-> NoText]
    ELSE IF WordCount(text.body) < SummaryMinWords
    THEN [ret |-> TooShort, raises |-> FALSE, sent |-> NoText]
    ELSE [ret |-> IF reply.raises THEN NoText ELSE reply.text,
          raises |-> FALSE,
          sent |-> Str(Truncate(text.body, SummaryCap))]

NoCall == [fn |-> "none", text |-> NoText,
           result |-> [ret |-> NoText, raises |-> FALSE, sent |-> NoText]]

\* texts of the runs: what the speech service hears, and what the models
\* answer
Transcripts == {Str(<<>>), Str(Words(3)), Str(Words(SummaryMinWords))}
Labels == {Str(<<8, 0, 5>>)}
Summaries == {Str(Words(2))}

\* ------------------------------------------------------- the process
\* module ai_analytics just imported: `ai_analytics = None`, no AIAnalytics
\* constructed, no thread inside get_ai_analytics
NoAnalytics ==
    [global |-> None, built |-> 0,
     at |-> [t \in Callers |-> "idle"],
     given |-> [t \in Callers |-> None]]

\* the process before call.main or api.startup_event has run: where main
\* is, why it exited, the start_sip thread, the SIPClient objects
\* constructed ("main": by start_sip, "api": by startup_event), those whose
\* start() completed, and the steps that failed
NoBoot ==
    [stage |-> "config", cause |-> "none", thread |-> "none",
     clients |-> {}, started |-> {}, failed |-> {}]

\* ----------------------------------------------------------------- Init
Init ==
    /\ cap = MaxCalls
    /\ mode \in {"real", "demo", "disabled", "noclient"}
    /\ account \in BOOLEAN
    /\ account => mode = "real"
    /\ config \in [auto_record : BOOLEAN, auto_answer : BOOLEAN]
    /\ calls = <<>>
    /\ current_call = None
    /\ history = <<>>
    /\ mem = <<>>
    /\ now = 1
    /\ pc = [t \in Callers |-> "idle"]
    /\ pend = [t \in Callers |-> NoLocals]
    /\ ret = [t \in Callers |-> "none"]
    /\ out = "none"
    /\ req = "none"
    /\ http = 0
    /\ sessions = <<>>
    /\ calllog = <<>>
    /\ resp = 0
    /\ closing = [w \in Callers |-> NoClosing]
    /\ ai = AIAnalytics(FALSE, FALSE, FALSE, "None", "None")
    /\ jobs = <<>>
    /\ last = NoCall
    /\ analytics = NoAnalytics
    /\ boot = NoBoot

\* the clock at a later utcnow() of the same handler
LaterReads == {t \in {now, now + 1} : t <= MaxTime}

Tick ==
    /\ now < MaxTime
    /\ now' = now + 1
    /\ out' = "none"
    /\ req' = "none"
    /\ http' = 0
    /\ UNCHANGED <<cap, mode, account, config, calls, current_call, history, mem,
                   pc, pend, ret, backendVars, aiVars, procVars>>

\* ------------------------------------------------- SIPClient.make_call
Dialing == {t \in Callers : pc[t] = "dial"}

\* the registration check placed after the CallHistory row is added
make_call_unregistered_recorded(t, destination) ==
    /\ pc[t] = "idle"
    /\ mode \in {"real", "disabled"}
    /\ ~account
    /\ Len(history) < cap
    /\ history' = Append(history, NewRow(destination, "outbound",
                                         "calling", now))
    /\ ret' = [ret EXCEPT ![t] = "None"]
    /\ out' = "none"
    /\ req' = "none"
    /\ http' = 500
    /\ UNCHANGED <<cap, mode, account, config, calls, current_call, mem,
                   now, pc, pend, backendVars, aiVars, procVars>>

\* api.make_call without a client: `if not sip_client: raise
\* HTTPException(status_code=503)`
make_call_noclient(t, destination) ==
    /\ pc[t] = "idle"
    /\ mode = "noclient"
    /\ out' = "none"
    /\ req' = "none"
    /\ http' = 503
    /\ UNCHANGED <<cap, mode, account, config, calls, current_call, history, mem,
                   now, pc, pend, ret, backendVars, aiVars, procVars>>

\* `if not self.account: return None`
make_call_unregistered(t, destination) ==
    /\ pc[t] = "idle"
    /\ mode \in {"real", "disabled"}
    /\ ~account
    /\ ret' = [ret EXCEPT ![t] = "None"]
    /\ out' = "none"
    /\ req' = "none"
    /\ http' = 500
    /\ UNCHANGED <<cap, mode, account, config, calls, current_call, history, mem,
                   now, pc, pend, backendVars, aiVars, procVars>>

\* format the destination, add the CallHistory row and commit it
make_call_record(t, destination) ==
    /\ pc[t] = "idle"
    /\ PJSUA2_AVAILABLE
    /\ account
    /\ Len(history) < cap
    /\ Len(calls) + Cardinality(Dialing) < cap
    /\ LET dest == FormatDestination(destination)
           row == NewRow(dest, "outbound", "calling", now)
       IN /\ history' = Append(history, row)
          /\ mem' = Append(mem, NewObj(row, "local"))
          /\ pend' = [pend EXCEPT ![t] = [dest |-> dest,
                                          rec |-> Len(history) + 1]]
    /\ pc' = [pc EXCEPT ![t] = "dial"]
    /\ ret' = [ret EXCEPT ![t] = "none"]
    /\ out' = "none"
    /\ req' = "none"
    /\ http' = 0
    /\ UNCHANGED <<cap, mode, account, config, calls, current_call, now, backendVars, aiVars, procVars>>

\* makeCall raises pj.Error for a URI that is not sip:user@host and may
\* raise for one that is
MakeCallTakes(dest) ==
    IF Len(dest) = 5 /\ StartsWithSip(dest) /\ dest[4] = "@" THEN BOOLEAN
    ELSE {FALSE}

\* MyCall(self.account); call.makeCall(destination, prm); return call --
\* or pj.Error: return None
make_call_dial(t) ==
    /\ pc[t] = "dial"
    /\ \E ok \in MakeCallTakes(pend[t].dest) :
          IF ok
          THEN /\ calls' = Append(calls, NewCall("outbound", pend[t].dest,
                                                 "NULL", pend[t].rec, 0))
               /\ ret' = [ret EXCEPT ![t] = "call"]
          ELSE /\ calls' = calls
               /\ ret' = [ret EXCEPT ![t] = "None"]
    /\ pc' = [pc EXCEPT ![t] = "idle"]
    /\ pend' = [pend EXCEPT ![t] = NoLocals]
    /\ out' = "none"
    /\ req' = "makeCall"
    /\ http' = (IF ret'[t] = "call" THEN 200 ELSE 500)
    /\ UNCHANGED <<cap, mode, account, config, current_call, history, mem, now,
                   backendVars, aiVars, procVars>>

\* legacy make_call without pjsua2: the simulated call
make_call_demo(t, destination) ==
    /\ pc[t] = "idle"
    /\ mode = "demo"
    /\ Len(history) < cap
    /\ Len(calls) < cap
    /\ account' = TRUE
    /\ calls' = Append(calls, MockCall(destination, now))
    /\ current_call' = Len(calls) + 1
    \* the row's start_time is a datetime.utcnow() of its own, read after
    \* the one in MockCall.__init__
    /\ \E dbok \in BOOLEAN, t2 \in LaterReads :
          /\ now' = t2
          /\ IF dbok
             THEN LET row == NewRow(destination, "outbound", "answered", t2)
                  IN /\ history' = Append(history, row)
                     /\ mem' = Append(mem, NewObj(row, "closed"))
             ELSE UNCHANGED <<history, mem>>
    /\ ret' = [ret EXCEPT ![t] = "call"]
    /\ out' = "none"
    /\ req' = "none"
    /\ http' = 200
    /\ UNCHANGED <<cap, mode, config, pc, pend, backendVars, aiVars, procVars>>

\* ------------------------------------------- MyAccount.onIncomingCall
\* The row is added to MyAccount.db_session and committed there, which
\* also writes every changed object of an earlier inbound call.
onIncomingCall(uri) ==
    /\ PJSUA2_AVAILABLE
    /\ account
    /\ EngineIdle
    /\ Len(history) < cap
    /\ Len(calls) + Cardinality(Dialing) < cap
    /\ LET row == NewRow(uri, "inbound", "ringing", now)
           code == IF config.auto_answer THEN 200 ELSE 180
       IN /\ history' = Append(Commit("account"), row)
          /\ mem' = Append(mem, NewObj(row, "account"))
          /\ calls' = Append(calls, NewCall("inbound", uri, "INCOMING",
                                            Len(history) + 1, code))
    /\ out' = "none"
    /\ req' = "answer"
    /\ http' = 0
    /\ UNCHANGED <<cap, mode, account, config, current_call, now, pc, pend, ret,
                   backendVars, aiVars, procVars>>

\* --------------------------------------------------- MyCall.onCallState
\* start_recording: `self.getMedia(0).startRecording(filename)` was reached
\* and returned, i.e. makedirs, the parse of ci.remoteUri and the engine
\* call all succeeded.
RecordingStarted(call, outcome) ==
    outcome = "ok" /\ RemoteParses(call.remote_uri)

\* f"{rec_path}/call_{remote}_{timestamp}.wav"; the timestamp is a clock
\* reading of start_recording's own (datetime.now(), taken after the
\* commit of the connect time)
RecordingFile(call, t) ==
    [set |-> TRUE, remote |-> RemoteOf(call.remote_uri), ts |-> t]

RecordingPath_before_start(call, outcome, t, old) ==
    IF RemoteParses(call.remote_uri) /\ outcome # "mkdir_fail"
    THEN RecordingFile(call, t) ELSE old

\* start_recording: call_record.recording_path after the method; the
\* assignment follows startRecording inside the try block
RecordingPath(call, outcome, t, old) ==
    IF RecordingStarted(call, outcome) THEN RecordingFile(call, t) ELSE old

RecordingRaises_uncaught(call, outcome) ==
    outcome = "mkdir_fail" \/ ~RemoteParses(call.remote_uri)

\* start_recording: `except Exception` catches whatever the body raises, so
\* no exception leaves the method
RecordingRaises(call, outcome) == FALSE

FirstConfirmed_every(call, status) == status = "CONFIRMED"

\* `if status == "CONFIRMED" and not self.call_start_time`
FirstConfirmed(call, status) ==
    status = "CONFIRMED" /\ call.call_start_time = None

\* (datetime.utcnow() - self.call_start_time).total_seconds()
DurationSince(start, t) == t - start

SlotAfter_kept(c, status) == c

\* `self.account.current_call = self if status != "DISCONNECTED" else None`
SlotAfter(c, status) == IF status # "DISCONNECTED" THEN c ELSE None

\* the callback up to its last line: the state is printed, the record
\* updated and committed, recording started or stopped.  The slot is
\* written only afterwards (onCallState_slot); the threads of the API run
\* in between.
onCallState(c, status) ==
    /\ c \in DOMAIN calls
    /\ EngineIdle
    /\ status \in EngineNext(calls[c])
    /\ LET call == calls[c]
           r == call.call_record
       IN IF FirstConfirmed(call, status)
          THEN \E o \in IF config.auto_record THEN RecOutcomes ELSE {"off"},
                  t2 \in IF config.auto_record THEN LaterReads ELSE {now} :
                 /\ calls' = [calls EXCEPT
                                ![c].state = status,
                                ![c].call_start_time = now,
                                ![c].stamps = @ + 1,
                                ![c].recordings =
                                    IF config.auto_record THEN @ + 1 ELSE @,
                                ![c].capture = config.auto_record
                                               /\ RecordingStarted(call, o),
                                \* an exception leaving the callback skips
                                \* its last line
                                ![c].cb =
                                    IF config.auto_record
                                       /\ RecordingRaises(call, o)
                                    THEN "none" ELSE status]
                 /\ mem' = [mem EXCEPT
                              ![r].status = "answered",
                              ![r].start_time = now,
                              ![r].recording_path =
                                  IF config.auto_record
                                  THEN RecordingPath(call, o, t2, @)
                                  ELSE @]
                 /\ history' = CommitCallSession
                 /\ now' = t2
                 /\ req' = IF config.auto_record /\ o # "mkdir_fail"
                               /\ RemoteParses(call.remote_uri)
                            THEN "startRecording" ELSE "none"
          ELSE IF status = "DISCONNECTED"
          THEN /\ calls' = [calls EXCEPT
                              ![c].state = status,
                              ![c].stopped = (call.recording_id # None),
                              ![c].cb = status]
               /\ req' = IF call.recording_id # None
                          THEN "stopRecording" ELSE "none"
               /\ IF call.call_start_time # None
                  THEN \E t2 \in LaterReads :
                         /\ mem' = [mem EXCEPT
                                      ![r].end_time = t2,
                                      ![r].duration =
                                          DurationSince(call.call_start_time,
                                                        now)]
                         /\ history' = CommitCallSession
                         /\ now' = t2
                  ELSE UNCHANGED <<mem, history, now>>
          ELSE /\ calls' = [calls EXCEPT ![c].state = status,
                                         ![c].cb = status]
               /\ req' = "none"
               /\ UNCHANGED <<mem, history, now>>
    \* print(f"Call state: {status}")
    /\ out' = status
    /\ http' = 0
    /\ UNCHANGED <<cap, mode, account, config, current_call, pc, pend, ret,
                   backendVars, aiVars, procVars>>

\* the last line of the callback:
\* `self.account.current_call = self if status != "DISCONNECTED" else None`
onCallState_slot(c) ==
    /\ c \in DOMAIN calls
    /\ calls[c].cb # "none"
    /\ current_call' = SlotAfter(c, calls[c].cb)
    /\ calls' = [calls EXCEPT ![c].cb = "none"]
    /\ out' = "none"
    /\ req' = "none"
    /\ http' = 0
    /\ UNCHANGED <<cap, mode, account, config, history, mem, now, pc, pend,
                   ret, backendVars, aiVars, procVars>>

\* --------------------------------------------- SIPClient.get_call_status
\* `if self.account and self.account.current_call:` ... else
\* {'active': False}
MockDuration_frozen(call, t) == 0

\* MockCall.getInfo: int((datetime.utcnow() - self.start_time)
\* .total_seconds()), the clock counting whole seconds
MockDuration(call, t) == t - call.start_time

\* ci.connectDuration.sec of an engine call: the engine counts from the
\* moment the call was confirmed, 0 before
ConnectDuration(call, t) ==
    IF call.call_start_time = None THEN 0 ELSE t - call.call_start_time

get_call_status ==
    IF account /\ current_call # None
    THEN [active |-> TRUE, state |-> calls[current_call].state,
          duration |-> IF calls[current_call].kind = "mock"
                       THEN MockDuration(calls[current_call], now)
                       ELSE ConnectDuration(calls[current_call], now),
          on_hold |-> calls[current_call].on_hold,
          is_muted |-> calls[current_call].is_muted]
    ELSE [active |-> FALSE, state |-> "", duration |-> 0,
          on_hold |-> FALSE, is_muted |-> FALSE]

\* ------------------------------------------------ SIPClient.answer_call
\* The engine accepts answer(200) for an inbound call that is not yet
\* confirmed and raises pj.Error otherwise.
CanAnswer(call) ==
    call.kind = "real" /\ call.direction = "inbound"
    /\ call.state \in {"INCOMING", "EARLY"} /\ ~call.hangup_sent

\* self.account.current_call is read a second time to make the request;
\* the engine's thread may have emptied it since the test.  The
\* AttributeError is caught by `except Exception` of the legacy client and
\* printed as a failure; `except pj.Error` of the current client lets it
\* through and the endpoint answers 500.
SlotGone(msg) ==
    \E caught \in BOOLEAN :
        /\ out' = IF caught THEN msg ELSE "none"
        /\ http' = IF caught THEN 200 ELSE 500

\* api.answer_call / SIPClient.answer_call up to the test of the slot
answer_call(t) ==
    /\ pc[t] = "idle"
    /\ IF mode = "noclient"
       THEN /\ out' = "none"
            /\ http' = 503
            /\ pc' = pc
       ELSE IF account /\ current_call # None
       THEN IF ~PJSUA2_AVAILABLE
            THEN /\ out' = "Answered (Demo)"
                 /\ http' = 200
                 /\ pc' = pc
            ELSE /\ out' = "none"
                 /\ http' = 0
                 /\ pc' = [pc EXCEPT ![t] = "answer"]
       ELSE /\ out' = "No incoming call"
            /\ http' = 200
            /\ pc' = pc
    /\ req' = "none"
    /\ UNCHANGED <<cap, mode, account, config, calls, current_call, history,
                   mem, now, pend, ret, backendVars, aiVars, procVars>>

\* ... and `self.account.current_call.answer(prm)`
answer_call_use(t) ==
    /\ pc[t] = "answer"
    /\ pc' = [pc EXCEPT ![t] = "idle"]
    /\ IF current_call = None
       THEN /\ SlotGone("Answer failed")
            /\ req' = "none"
            /\ calls' = calls
       ELSE /\ IF CanAnswer(calls[current_call])
               THEN /\ calls' = [calls EXCEPT ![current_call].answer = 200]
                    /\ out' = "Call answered"
               ELSE /\ calls' = calls
                    /\ out' = "Answer failed"
            /\ req' = "answer"
            /\ http' = 200
    /\ UNCHANGED <<cap, mode, account, config, current_call, history, mem, now,
                   pend, ret, backendVars, aiVars, procVars>>

\* ----------------------------------------------------- SIPClient.hangup
\* hangup that closes the last record again when no call is active
hangup_restamp(t) ==
    /\ pc[t] = "idle"
    /\ IF mode = "noclient"
       THEN /\ out' = "none"
            /\ http' = 503
            /\ UNCHANGED <<pc, current_call, mem>>
       ELSE IF account /\ current_call # None
       THEN /\ mem' = mem
            /\ IF ~PJSUA2_AVAILABLE
               THEN /\ current_call' = None
                    /\ out' = "Call ended (Demo)"
                    /\ http' = 200
                    /\ pc' = pc
               ELSE /\ current_call' = current_call
                    /\ out' = "none"
                    /\ http' = 0
                    /\ pc' = [pc EXCEPT ![t] = "hangup"]
       ELSE /\ out' = "No active call"
            /\ http' = 200
            /\ mem' = [r \in DOMAIN mem |->
                          IF r = Len(mem) THEN [mem[r] EXCEPT !.end_time = now]
                          ELSE mem[r]]
            /\ UNCHANGED <<pc, current_call>>
    /\ req' = "none"
    /\ UNCHANGED <<cap, mode, account, config, calls, history, now, pend, ret,
                   backendVars, aiVars, procVars>>

\* api.hangup_call / SIPClient.hangup up to the test of the slot; without
\* pjsua2 the legacy client drops the simulated call at once
hangup(t) ==
    /\ pc[t] = "idle"
    /\ IF mode = "noclient"
       THEN /\ out' = "none"
            /\ http' = 503
            /\ UNCHANGED <<pc, current_call>>
       ELSE IF account /\ current_call # None
       THEN IF ~PJSUA2_AVAILABLE
            THEN /\ current_call' = None
                 /\ out' = "Call ended (Demo)"
                 /\ http' = 200
                 /\ pc' = pc
            ELSE /\ current_call' = current_call
                 /\ out' = "none"
                 /\ http' = 0
                 /\ pc' = [pc EXCEPT ![t] = "hangup"]
       ELSE /\ out' = "No active call"
            /\ http' = 200
            /\ UNCHANGED <<pc, current_call>>
    /\ req' = "none"
    /\ UNCHANGED <<cap, mode, account, config, calls, history, mem, now, pend,
                   ret, backendVars, aiVars, procVars>>

\* ... and `self.account.current_call.hangup(prm)`
hangup_use(t) ==
    /\ pc[t] = "hangup"
    /\ pc' = [pc EXCEPT ![t] = "idle"]
    /\ IF current_call = None
       THEN /\ SlotGone("Hangup failed")
            /\ req' = "none"
            /\ calls' = calls
       \* the engine raises pj.Error for a call it was already asked to
       \* hang up and for one that is disconnected
       ELSE /\ IF calls[current_call].hangup_sent
                  \/ calls[current_call].state = "DISCONNECTED"
               THEN /\ calls' = calls
                    /\ out' = "Hangup failed"
               ELSE /\ calls' = [calls EXCEPT
                                   ![current_call].hangup_sent = TRUE]
                    /\ out' = "Call ended"
            /\ req' = "hangup"
            /\ http' = 200
    /\ UNCHANGED <<cap, mode, account, config, current_call, history, mem, now,
                   pend, ret, backendVars, aiVars, procVars>>

\* ----------------------------------------- api.py: in-call controls
\* `if not sip_client or not sip_client.account or not
\* sip_client.account.current_call: raise HTTPException(404)`
NoActiveCall == ~account \/ current_call = None

\* the endpoint's 404 answer
NotFound ==
    /\ out' = "none"
    /\ req' = "none"
    /\ http' = 404
    /\ calls' = calls

\* the first line of a control endpoint: 404, or on to the next line,
\* which reads sip_client.account.current_call again
EndpointTest(t, op) ==
    /\ pc[t] = "idle"
    /\ IF NoActiveCall
       THEN /\ NotFound
            /\ pc' = pc
       ELSE /\ out' = "none"
            /\ req' = "none"
            /\ http' = 0
            /\ calls' = calls
            /\ pc' = [pc EXCEPT ![t] = op]
    /\ UNCHANGED <<cap, mode, account, config, current_call, history, mem, now,
                   pend, ret, backendVars, aiVars, procVars>>

\* the slot found None at that second read: the AttributeError leaves
\* the endpoint and the request ends in a 500
SlotGoneInEndpoint ==
    /\ out' = "none"
    /\ req' = "none"
    /\ http' = 500
    /\ calls' = calls

\* The engine takes setHold and reinvite only for a confirmed call and
\* raises pj.Error otherwise; a request it takes may still fail.
EngineTakes(call) == IF call.state = "CONFIRMED" THEN BOOLEAN ELSE {FALSE}

\* api.hold_call, its test
hold(t) == EndpointTest(t, "hold")

\* MyCall.hold (MockCall.hold in the legacy client): the exception of a
\* failed setHold is caught inside MyCall.hold
hold_use(t) ==
    /\ pc[t] = "hold"
    /\ pc' = [pc EXCEPT ![t] = "idle"]
    /\ IF current_call = None THEN SlotGoneInEndpoint
       ELSE LET call == calls[current_call]
            IN /\ http' = 200
               /\ IF call.kind = "mock"
                  THEN /\ calls' = [calls EXCEPT ![current_call].on_hold = TRUE]
                       /\ out' = "Demo call held"
                       /\ req' = "none"
                  ELSE /\ req' = "setHold"
                       /\ \E ok \in EngineTakes(call) :
                            IF ok
                            THEN /\ calls' = [calls EXCEPT
                                                ![current_call].on_hold = TRUE]
                                 /\ out' = "Call on hold"
                            ELSE /\ calls' = calls
                                 /\ out' = "Hold failed"
    /\ UNCHANGED <<cap, mode, account, config, current_call, history, mem, now,
                   pend, ret, backendVars, aiVars, procVars>>

\* api.resume_call, its test
resume(t) == EndpointTest(t, "resume")

\* MyCall.resume
resume_use(t) ==
    /\ pc[t] = "resume"
    /\ pc' = [pc EXCEPT ![t] = "idle"]
    /\ IF current_call = None THEN SlotGoneInEndpoint
       ELSE LET call == calls[current_call]
            IN /\ http' = 200
               /\ IF call.kind = "mock"
                  THEN /\ calls' = [calls EXCEPT
                                      ![current_call].on_hold = FALSE]
                       /\ out' = "Demo call resumed"
                       /\ req' = "none"
                  ELSE /\ req' = "reinvite"
                       /\ \E ok \in EngineTakes(call) :
                            IF ok
                            THEN /\ calls' = [calls EXCEPT
                                                ![current_call].on_hold = FALSE]
                                 /\ out' = "Call resumed"
                            ELSE /\ calls' = calls
                                 /\ out' = "Resume failed"
    /\ UNCHANGED <<cap, mode, account, config, current_call, history, mem, now,
                   pend, ret, backendVars, aiVars, procVars>>

\* ci.media lists an audio stream once the call is confirmed and may list
\* one before
AudioMedia(call) == IF call.state = "CONFIRMED" THEN {TRUE} ELSE BOOLEAN

\* adjustTxLevel raises when there is no capture device; with no audio
\* media the loop of mute and unmute calls nothing
LevelAdjusts(media) == IF media THEN BOOLEAN ELSE {TRUE}

\* MyCall.mute and MyCall.unmute: set_mute(t, TRUE) is mute,
\* set_mute(t, FALSE) is unmute
set_mute(t, flag) ==
    /\ pc[t] = (IF flag THEN "mute" ELSE "unmute")
    /\ pc' = [pc EXCEPT ![t] = "idle"]
    /\ IF current_call = None THEN SlotGoneInEndpoint
       ELSE LET call == calls[current_call]
            IN /\ http' = 200
               /\ IF call.kind = "mock"
                  THEN /\ calls' = [calls EXCEPT
                                      ![current_call].is_muted = flag]
                       /\ out' = IF flag THEN "Demo call muted"
                                 ELSE "Demo call unmuted"
                       /\ req' = "none"
                  ELSE \E media \in AudioMedia(call) :
                       /\ req' = IF media THEN "adjustTxLevel" ELSE "none"
                       /\ \E ok \in LevelAdjusts(media) :
                            IF ok
                            THEN /\ calls' = [calls EXCEPT
                                                ![current_call].is_muted = flag]
                                 /\ out' = IF flag THEN "Microphone muted"
                                           ELSE "Microphone unmuted"
                            ELSE /\ calls' = calls
                                 /\ out' = IF flag THEN "Mute failed"
                                           ELSE "Unmute failed"
    /\ UNCHANGED <<cap, mode, account, config, current_call, history, mem, now,
                   pend, ret, backendVars, aiVars, procVars>>

\* api.mute_call and api.unmute_call, their tests
mute(t) == EndpointTest(t, "mute")
unmute(t) == EndpointTest(t, "unmute")
mute_use(t) == set_mute(t, TRUE)
unmute_use(t) == set_mute(t, FALSE)

\* The characters dialDtmf can turn into tones; it raises pj.Error for
\* any other character and for a call without an audio stream.
EngineTones == {"0", "1", "2", "3", "4", "5", "6", "7", "8", "9",
                "A", "B", "C", "D", "*", "#"}
DialTakes(call, digits) ==
    IF call.state = "CONFIRMED" /\ \A i \in DOMAIN digits :
                                      digits[i] \in EngineTones
    THEN BOOLEAN ELSE {FALSE}

\* api.send_dtmf, its test; request.digits is kept for the next line
send_dtmf(t, digits) ==
    /\ pc[t] = "idle"
    /\ IF NoActiveCall
       THEN /\ NotFound
            /\ UNCHANGED <<pc, pend>>
       ELSE /\ out' = "none"
            /\ req' = "none"
            /\ http' = 0
            /\ calls' = calls
            /\ pc' = [pc EXCEPT ![t] = "dtmf"]
            /\ pend' = [pend EXCEPT ![t] = [dest |-> digits, rec |-> 0]]
    /\ UNCHANGED <<cap, mode, account, config, current_call, history, mem, now,
                   ret, backendVars, aiVars, procVars>>

\* MyCall.send_dtmf: request.digits goes to dialDtmf as it came
send_dtmf_use(t) ==
    /\ pc[t] = "dtmf"
    /\ pc' = [pc EXCEPT ![t] = "idle"]
    /\ pend' = [pend EXCEPT ![t] = NoLocals]
    /\ IF current_call = None THEN SlotGoneInEndpoint
       ELSE LET call == calls[current_call]
            IN /\ http' = 200
               /\ calls' = calls
               /\ IF call.kind = "mock"
                  THEN /\ out' = "Demo DTMF"
                       /\ req' = "none"
                  ELSE /\ req' = "dialDtmf"
                       /\ \E ok \in DialTakes(call, pend[t].dest) :
                            out' = IF ok THEN "DTMF sent" ELSE "DTMF failed"
    /\ UNCHANGED <<cap, mode, account, config, current_call, history, mem, now,
                   ret, backendVars, aiVars, procVars>>

\* ------------------------------------------- backend/calls/views.py
\* CallSession.duration: int((ended_at or now) - started_at)
SessionDuration(sess, t) ==
    (IF sess.ended_at # None THEN sess.ended_at ELSE t) - sess.started_at

\* what ARI puts in the "id" of the channel it created: an id, or nothing
\* (`data.get("id", "")`)
ChannelIds == {"chan", ""}

\* ari.initiate_call: what views.make_call reads with
\* ari_result.get("channel_id", ""); a failed origination carries the key
\* with the value None, so the default is not used
AriChannel_defaulted(ari_ok, chan) == IF ari_ok THEN chan ELSE ""

AriChannel(ari_ok, chan) == IF ari_ok THEN chan ELSE "None"

\* CallSession.channel_id is a CharField without null=True: saving None
\* violates NOT NULL and CallSession.objects.create raises IntegrityError
Saves(channel_id) == channel_id # "None"

\* views.make_call: initiate_call through ARI, then CallSession.create;
\* the IntegrityError is caught nowhere and the request ends in a 500
backend_make_call(ari_ok, chan) ==
    /\ Len(sessions) < MaxSessions
    /\ LET channel_id == AriChannel(ari_ok, chan)
       IN IF Saves(channel_id)
          THEN /\ sessions' = Append(sessions,
                                     [call_id |-> Len(sessions) + 1,
                                      channel_id |-> channel_id,
                                      status |-> IF ari_ok THEN "ringing"
                                                 ELSE "initiated",
                                      started_at |-> now,
                                      ended_at |-> None])
               /\ resp' = IF ari_ok THEN 201 ELSE 400
          ELSE /\ sessions' = sessions
               /\ resp' = 500
    /\ UNCHANGED <<phoneVars, aiVars, procVars, now, calllog, closing>>

\* views.hangup_call for a call_id that no CallSession has
backend_hangup_unknown(call_id) ==
    /\ call_id \notin DOMAIN sessions
    /\ resp' = 404
    /\ UNCHANGED <<phoneVars, aiVars, procVars, now, sessions, calllog,
                   closing>>

EndedSession_unstamped(sess, t) == [sess EXCEPT !.status = "ended"]

\* the row hangup_call saves: status and ended_at are written whatever the
\* row held before
EndedSession(sess, t) == [sess EXCEPT !.status = "ended", !.ended_at = t]

\* views.hangup_call for an existing CallSession, its read:
\* CallSession.objects.get gives the worker an object of its own, and the
\* worker goes on to ask ARI when the row has a channel id (a request
\* that may take seconds)
backend_hangup_call(w, call_id) ==
    /\ closing[w] = NoClosing
    /\ call_id \in DOMAIN sessions
    /\ closing' = [closing EXCEPT ![w] =
                      [NoClosing EXCEPT !.stage = "ari",
                                        !.call = call_id,
                                        !.row = sessions[call_id]]]
    /\ UNCHANGED <<phoneVars, aiVars, procVars, now, sessions, calllog,
                   resp>>

\* ... the answer of ARI and the first write: save() writes every column
\* of the object read before the request, with the new status and
\* ended_at.  call_session.duration, read for the CallLog afterwards, is
\* that of the worker's own object.
backend_hangup_save(w, ari_ok) ==
    /\ closing[w].stage = "ari"
    /\ LET ended == EndedSession(closing[w].row, now)
       IN /\ sessions' = [sessions EXCEPT ![closing[w].call] = ended]
          /\ closing' = [closing EXCEPT ![w] =
                            [stage |-> "log",
                             call |-> closing[w].call,
                             row |-> ended,
                             duration |-> SessionDuration(ended, now),
                             success |-> closing[w].row.channel_id = ""
                                         \/ ari_ok]]
    /\ UNCHANGED <<phoneVars, aiVars, procVars, now, calllog, resp>>

\* ... and its second write, CallLog.objects.create, in a transaction of
\* its own: when the insert fails the exception leaves the view, the
\* session stays ended and the request ends in a 500
backend_hangup_log(w, stored) ==
    /\ closing[w].stage = "log"
    /\ IF stored
       THEN /\ Len(calllog) < MaxLogs
            /\ calllog' = Append(calllog,
                                 [call |-> closing[w].call,
                                  duration |-> closing[w].duration,
                                  status |-> "completed"])
            /\ resp' = IF closing[w].success THEN 200 ELSE 206
       ELSE /\ calllog' = calllog
            /\ resp' = 500
    /\ closing' = [closing EXCEPT ![w] = NoClosing]
    /\ UNCHANGED <<phoneVars, aiVars, procVars, now, sessions>>

\* ari.log_incoming_call: a CallLog row with status 'ringing' and duration
\* 0 that belongs to no CallSession
log_incoming_call ==
    /\ Len(calllog) < MaxLogs
    /\ Cardinality({i \in DOMAIN calllog : calllog[i].status = "ringing"})
           < MaxRinging
    /\ calllog' = Append(calllog, [call |-> None, duration |-> 0,
                                   status |-> "ringing"])
    /\ UNCHANGED <<phoneVars, aiVars, procVars, now, sessions, resp,
                   closing>>

\* n words of w letters separated by single blanks
WordsOf(n, w) == [i \in 1..(2 * n - 1) |-> IF i % 2 = 1 THEN w ELSE 0]

\* arguments of the direct calls: None, "", " ", and texts of 1 to 51
\* words, of 1 to 1580 characters
TextInputs ==
    {NoText, Str(<<>>), Str(<<0>>)}
        \cup {Str(WordsOf(n, w)) : n \in {1, 13, 49, 50, 51},
                                  w \in {1, 5, 30}}

\* ai.analyze_sentiment(text), as in the module's self-test
call_analyze_sentiment(text, reply) ==
    /\ last' = [fn |-> "analyze_sentiment", text |-> text,
                result |-> analyze_sentiment(ai, text, reply)]
    /\ UNCHANGED <<phoneVars, backendVars, now, ai, jobs, procVars>>

\* ai.generate_summary(text)
call_generate_summary(text, reply) ==
    /\ last' = [fn |-> "generate_summary", text |-> text,
                result |-> generate_summary(ai, text, reply)]
    /\ UNCHANGED <<phoneVars, backendVars, now, ai, jobs, procVars>>

\* --------------------------------------- ai_analytics.py: the worker
\* get_call_status as the interpreter runs it, beside the engine's worker
\* thread that delivers onCallState: first the test of the slot ...
get_call_status_check(t) ==
    /\ pc[t] = "idle"
    /\ IF mode = "noclient"
       THEN /\ pc' = pc
            /\ ret' = [ret EXCEPT ![t] = "none"]
            /\ http' = 503
       ELSE IF account /\ current_call # None
       THEN /\ pc' = [pc EXCEPT ![t] = "status"]
            /\ ret' = [ret EXCEPT ![t] = "none"]
            /\ http' = 0
       ELSE /\ pc' = pc
            /\ ret' = [ret EXCEPT ![t] = "inactive"]
            /\ http' = 200
    /\ out' = "none"
    /\ req' = "none"
    /\ UNCHANGED <<cap, mode, account, config, calls, current_call, history,
                   mem, now, pend, backendVars, aiVars, procVars>>

\* ... then `self.account.current_call.getInfo()`, which reads the slot
\* again: on None it raises AttributeError, which nothing catches
get_call_status_use(t) ==
    /\ pc[t] = "status"
    /\ pc' = [pc EXCEPT ![t] = "idle"]
    /\ IF current_call = None
       THEN /\ ret' = [ret EXCEPT ![t] = "AttributeError"]
            /\ http' = 500
       ELSE /\ ret' = [ret EXCEPT ![t] = "active"]
            /\ http' = 200
    /\ out' = "none"
    /\ req' = "none"
    /\ UNCHANGED <<cap, mode, account, config, calls, current_call, history,
                   mem, now, pend, backendVars, aiVars, procVars>>

\* get_ai_analytics as a thread runs it: `if ai_analytics is None:` ...
get_ai_analytics_check(t) ==
    /\ analytics.at[t] = "idle"
    /\ analytics' =
          IF analytics.global = None
          THEN [analytics EXCEPT !.at[t] = "construct"]
          ELSE [analytics EXCEPT !.given[t] = analytics.global]
    /\ UNCHANGED <<phoneVars, backendVars, aiVars, now, boot>>

\* ... then `ai_analytics = AIAnalytics()` and `return ai_analytics`; a
\* constructor that raises (config.yaml unreadable) assigns nothing
get_ai_analytics_construct(t, raises) ==
    /\ analytics.at[t] = "construct"
    /\ analytics.built < MaxBuilt
    /\ analytics' =
          IF raises
          THEN [analytics EXCEPT !.at[t] = "idle"]
          ELSE [analytics EXCEPT !.at[t] = "idle",
                                 !.built = @ + 1,
                                 !.global = analytics.built + 1,
                                 !.given[t] = analytics.built + 1]
    /\ UNCHANGED <<phoneVars, backendVars, aiVars, now, boot>>

\* call.main: config.yaml is loaded, or the process exits
main_load_config(ok) ==
    /\ boot.stage = "config"
    /\ boot' = IF ok THEN [boot EXCEPT !.stage = "db"]
               ELSE [boot EXCEPT !.stage = "exited", !.cause = "config"]
    /\ UNCHANGED <<phoneVars, backendVars, aiVars, now, analytics>>

\* call.main: init_db(), with sys.exit(1) in its except branch
main_init_db(ok) ==
    /\ boot.stage = "db"
    /\ boot' = IF ok THEN [boot EXCEPT !.stage = "ai"]
               ELSE [boot EXCEPT !.stage = "exited", !.cause = "database",
                                 !.failed = @ \cup {"database"}]
    /\ UNCHANGED <<phoneVars, backendVars, aiVars, now, analytics>>

\* call.main: get_ai_analytics(), whose failure is only printed
main_init_ai(ok) ==
    /\ boot.stage = "ai"
    /\ analytics.built < MaxBuilt
    /\ boot' = [boot EXCEPT !.stage = "sip",
                            !.failed = IF ok THEN @ ELSE @ \cup {"ai"}]
    /\ analytics' =
          IF ~ok THEN analytics
          ELSE IF analytics.global # None
          THEN [analytics EXCEPT !.given[1] = analytics.global]
          ELSE [analytics EXCEPT !.built = @ + 1,
                                 !.global = analytics.built + 1,
                                 !.given[1] = analytics.built + 1]
    /\ UNCHANGED <<phoneVars, backendVars, aiVars, now>>

\* call.main: sip_thread.start(), then time.sleep(2)
main_start_thread ==
    /\ boot.stage = "sip"
    /\ boot' = [boot EXCEPT !.stage = "serve", !.thread = "running"]
    /\ UNCHANGED <<phoneVars, backendVars, aiVars, now, analytics>>

\* How `SIPClient()` followed by `start()` can fail: the constructor
\* cannot open config.yaml and no object exists ("noconfig"); start()
\* raises before register() has assigned self.account ("engine"); or
\* account.create raises after the assignment ("create").
StartFailures == {"noconfig", "engine", "create"}

\* start_sip in its daemon thread: nothing without pjsua2, else a
\* SIPClient is constructed and started; an exception is only printed.
\* This client is main's own: the endpoints never see it.
start_sip(ok) ==
    /\ boot.thread = "running"
    /\ boot.stage # "exited"
    /\ IF ~PJSUA2_AVAILABLE THEN boot' = [boot EXCEPT !.thread = "done"]
       ELSE IF ok
       THEN boot' = [boot EXCEPT !.thread = "done",
                                 !.clients = @ \cup {"main"},
                                 !.started = @ \cup {"main"}]
       ELSE \E how \in StartFailures :
               boot' = [boot EXCEPT !.thread = "done",
                                    !.clients = IF how = "noconfig" THEN @
                                                ELSE @ \cup {"main"},
                                    !.failed = @ \cup {"sip"}]
    /\ UNCHANGED <<phoneVars, backendVars, aiVars, now, analytics>>

\* call.main from the sleep on: the lines that read config['api'] and
\* print config['sip'][...] stand outside every try, so a configuration
\* without these keys ends main with the exception ("uncaught"); else
\* main enters uvicorn.run(app, ...), which runs the application's
\* startup handler before it binds the listener
main_serve(ok) ==
    /\ boot.stage = "serve"
    /\ boot' = IF ok THEN [boot EXCEPT !.stage = "startup"]
               ELSE [boot EXCEPT !.stage = "exited", !.cause = "uncaught"]
    /\ UNCHANGED <<phoneVars, backendVars, aiVars, now, analytics>>

\* api.startup_event: `sip_client = SIPClient(); sip_client.start()`, an
\* exception is only printed; without pjsua2 start() returns at once.
\* This client is the one of the endpoints: once register() has assigned
\* its account they see an account, whether or not create went through.
\* The listener is bound after the handler has returned.
startup_event(ok) ==
    /\ boot.stage = "startup"
    /\ IF ok
       THEN /\ boot' = [boot EXCEPT !.stage = "listen",
                                    !.clients = @ \cup {"api"},
                                    !.started = IF PJSUA2_AVAILABLE
                                                THEN @ \cup {"api"} ELSE @]
            /\ account' = PJSUA2_AVAILABLE
       ELSE \E how \in IF PJSUA2_AVAILABLE THEN StartFailures
                       ELSE {"noconfig"} :
               /\ boot' = [boot EXCEPT !.stage = "listen",
                                       !.clients = IF how = "noconfig" THEN @
                                                   ELSE @ \cup {"api"},
                                       !.failed = @ \cup {"sip"}]
               /\ account' = (how = "create")
    /\ UNCHANGED <<cap, mode, config, calls, current_call, history, mem, pc,
                   pend, ret, out, req, http, backendVars, aiVars, now,
                   analytics>>

\* uvicorn.run after the startup handler: the listener is bound and the
\* server runs, or it cannot be bound: api.shutdown_event stops the
\* endpoints' client if there is one (stop() assigns no field of the
\* client) and the process ends with status 1
main_listen(bound) ==
    /\ boot.stage = "listen"
    /\ boot' = IF bound THEN [boot EXCEPT !.stage = "running"]
               ELSE [boot EXCEPT !.stage = "exited", !.cause = "listener"]
    /\ UNCHANGED <<phoneVars, backendVars, aiVars, now, analytics>>

process_call_inline(call_id) ==
    /\ Len(jobs) < MaxJobs
    /\ jobs' = Append(jobs, [call_id |-> call_id, pos |-> "start",
                             transcript |-> NoText, stages |-> {},
                             tries |-> 0, got |-> {},
                             file |-> "unchecked"])
    /\ pc' = [pc EXCEPT ![1] = "enrich"]
    /\ UNCHANGED <<cap, mode, account, config, calls, current_call, history,
                   mem, now, pend, ret, out, req, http, backendVars, ai, last,
                   procVars>>

\* process_call_async: Thread(target=self.process_call_recording).start()
\* A worker holds its position, the transcript it got, the stages it has
\* called (`tries` counts the calls) and the stages that gave a result.
process_call_async(call_id) ==
    /\ Len(jobs) < MaxJobs
    /\ jobs' = Append(jobs, [call_id |-> call_id, pos |-> "start",
                             transcript |-> NoText, stages |-> {},
                             tries |-> 0, got |-> {},
                             file |-> "unchecked"])
    /\ UNCHANGED <<phoneVars, backendVars, now, ai, last,
                   procVars>>

AfterTranscribe_always(transcript) == "sentiment"

\* `if transcript:` -- steps 2 and 3 run only with a transcript
AfterTranscribe(transcript) ==
    IF Truthy(transcript) THEN "sentiment" ELSE "done"

Stored_at_close(rows, id, field, value) == rows

Stored_on_first(rows, id, field, value) ==
    [rows EXCEPT ![1] = [f \in DOMAIN rows[1] |->
                            IF f = field THEN value ELSE rows[1][f]]]

\* `call.<field> = value; session.commit()`: the worker's own session
\* writes the one changed column of its row
Stored(rows, id, field, value) ==
    [rows EXCEPT ![id] = [f \in DOMAIN rows[id] |->
                             IF f = field THEN value ELSE rows[id][f]]]

\* the table after a stage: its result is stored only `if <result>:`
AfterStage(rows, id, field, value) ==
    IF Truthy(value) THEN Stored(rows, id, field, value) ELSE rows

\* the worker after a stage that returned: on to the next one
Ran(job, stage, value, next) ==
    [job EXCEPT !.pos = next,
                !.stages = @ \cup {stage},
                !.tries = @ + 1,
                !.got = IF Truthy(value) THEN @ \cup {stage} ELSE @]

\* a stage that raised: `except Exception` of process_call_recording
\* prints, `finally` closes the session, the later stages are skipped
Aborted(job, stage) ==
    [job EXCEPT !.pos = "done", !.stages = @ \cup {stage}, !.tries = @ + 1]

GuardsPass_file_unchecked(inst, rows, id, exists) ==
    /\ inst.enabled
    /\ id \in DOMAIN rows
    /\ rows[id].recording_path.set

\* the early returns of process_call_recording: analytics disabled, no
\* such record or no recording_path, no file at that path
GuardsPass(inst, rows, id, exists) ==
    /\ inst.enabled
    /\ id \in DOMAIN rows
    /\ rows[id].recording_path.set
    /\ exists

\* os.path.exists(call.recording_path) is evaluated only for an enabled
\* instance and a record with a recording_path
FileChecked(inst, rows, id) ==
    inst.enabled /\ id \in DOMAIN rows /\ rows[id].recording_path.set

\* what the worker knows of the file after the guards
FileSeen(inst, rows, id, exists) ==
    IF ~FileChecked(inst, rows, id) THEN "unchecked"
    ELSE IF exists THEN "yes" ELSE "no"

\* process_call_recording up to the call of transcribe_audio: the row is
\* read on the worker's own session and the guards are evaluated; `file`
\* keeps what os.path.exists answered.  A worker that passed them is
\* inside transcribe_audio.
job_guards(j) ==
    /\ j \in DOMAIN jobs
    /\ jobs[j].pos = "start"
    /\ LET id == jobs[j].call_id
       IN \E exists \in BOOLEAN :
            jobs' = [jobs EXCEPT
                       ![j].pos = IF GuardsPass(ai, history, id, exists)
                                  THEN "transcribe" ELSE "done",
                       ![j].file = FileSeen(ai, history, id, exists)]
    /\ UNCHANGED <<phoneVars, backendVars, now, ai, last, procVars>>

\* step 1: transcribe_audio returns, whatever other threads committed
\* while the speech service was asked, and the transcript is committed
job_transcribe(j) ==
    /\ j \in DOMAIN jobs
    /\ jobs[j].pos = "transcribe"
    /\ \E reply \in Replies(Transcripts) :
          LET transcript == transcribe_audio(ai, reply)
              id == jobs[j].call_id
          IN /\ history' = AfterStage(history, id, "transcript", transcript)
             /\ jobs' = [jobs EXCEPT
                           ![j] = [Ran(@, "transcribe", transcript,
                                       AfterTranscribe(transcript))
                                     EXCEPT !.transcript = transcript]]
    /\ UNCHANGED <<cap, mode, account, config, calls, current_call, mem, now,
                   pc, pend, ret, out, req, http, backendVars, ai, last,
                   procVars>>

\* step 2: analyze_sentiment and its commit
job_sentiment(j) ==
    /\ j \in DOMAIN jobs
    /\ jobs[j].pos = "sentiment"
    /\ \E reply \in Replies(Labels) :
          LET s == analyze_sentiment(ai, jobs[j].transcript, reply)
              id == jobs[j].call_id
          IN IF s.raises
             THEN /\ history' = history
                  /\ jobs' = [jobs EXCEPT ![j] = Aborted(@, "sentiment")]
             ELSE /\ history' = AfterStage(history, id, "sentiment", s.ret)
                  /\ jobs' = [jobs EXCEPT
                                ![j] = Ran(@, "sentiment", s.ret, "summary")]
    /\ UNCHANGED <<cap, mode, account, config, calls, current_call, mem, now,
                   pc, pend, ret, out, req, http, backendVars, ai, last,
                   procVars>>

\* step 3: generate_summary and its commit; the session is closed
job_summary(j) ==
    /\ j \in DOMAIN jobs
    /\ jobs[j].pos = "summary"
    /\ \E reply \in Replies(Summaries) :
          LET s == generate_summary(ai, jobs[j].transcript, reply)
              id == jobs[j].call_id
          IN IF s.raises
             THEN /\ history' = history
                  /\ jobs' = [jobs EXCEPT ![j] = Aborted(@, "summary")]
             ELSE /\ history' = AfterStage(history, id, "summary", s.ret)
                  /\ jobs' = [jobs EXCEPT
                                ![j] = Ran(@, "summary", s.ret, "done")]
    /\ UNCHANGED <<cap, mode, account, config, calls, current_call, mem, now,
                   pc, pend, ret, out, req, http, backendVars, ai, last,
                   procVars>>

\* The stage a worker is about to run calls its backend: recognize_google
\* for step 1 (a worker at the guards reaches it when the file is there),
\* the loaded pipeline for steps 2 and 3 (the summarizer only for a
\* transcript of 50 words or more).
CallsBackend(job) ==
    CASE job.pos = "start" ->
             /\ GuardsPass(ai, history, job.call_id, TRUE)
             /\ ai.speech /\ ai.transcription
      [] job.pos = "transcribe" -> ai.speech /\ ai.transcription
      [] job.pos = "sentiment" -> ai.sentiment_analyzer = "pipeline"
      [] job.pos = "summary" ->
             /\ ai.summarizer = "pipeline"
             /\ WordCount(job.transcript.body) >= SummaryMinWords
      [] OTHER -> FALSE

\* a backend that never answers: recognize_google and the pipelines are
\* called with no timeout, so the worker stays inside the call; a worker
\* inside recognize_google has seen the recording file
job_blocked(j) ==
    /\ j \in DOMAIN jobs
    /\ CallsBackend(jobs[j])
    /\ jobs' = [jobs EXCEPT ![j].pos = "blocked",
                            ![j].file = IF jobs[j].pos = "start"
                                        THEN "yes" ELSE @]
    /\ UNCHANGED <<phoneVars, backendVars, now, ai, last,
                   procVars>>

\* ------------------------------------------------------ specifications
PhoneNext(C) ==
    \/ \E t \in C, d \in Destinations : make_call_noclient(t, d)
    \/ \E t \in C, d \in Destinations : make_call_unregistered(t, d)
    \/ \E t \in C, d \in Destinations : make_call_record(t, d)
    \/ \E t \in C : make_call_dial(t)
    \/ \E t \in C, d \in Destinations : make_call_demo(t, d)
    \/ \E c \in 1..cap, st \in {"CALLING", "EARLY", "CONFIRMED",
                                     "DISCONNECTED"} : onCallState(c, st)
    \/ \E c \in 1..cap : onCallState_slot(c)
    \/ \E t \in C : hangup(t)
    \/ \E t \in C : hangup_use(t)

\* the softphone driven by one caller, the engine and the clock; nothing
\* in sip_client.py, api.py or call.py calls process_call_async
Lifecycle ==
    \/ Tick
    \/ PhoneNext({1})
    \/ \E uri \in IncomingUris : onIncomingCall(uri)
    \/ answer_call(1)
    \/ answer_call_use(1)

Next == Lifecycle

Spec == Init /\ [][Next]_vars

\* the same with room for one more call
InitMulti ==
    /\ cap = MaxCalls + 1
    /\ mode \in {"real", "demo", "disabled", "noclient"}
    /\ account \in BOOLEAN
    /\ account => mode = "real"
    /\ config \in [auto_record : BOOLEAN, auto_answer : BOOLEAN]
    /\ calls = <<>>
    /\ current_call = None
    /\ history = <<>>
    /\ mem = <<>>
    /\ now = 1
    /\ pc = [t \in Callers |-> "idle"]
    /\ pend = [t \in Callers |-> NoLocals]
    /\ ret = [t \in Callers |-> "none"]
    /\ out = "none"
    /\ req = "none"
    /\ http = 0
    /\ sessions = <<>>
    /\ calllog = <<>>
    /\ resp = 0
    /\ closing = [w \in Callers |-> NoClosing]
    /\ ai = AIAnalytics(FALSE, FALSE, FALSE, "None", "None")
    /\ jobs = <<>>
    /\ last = NoCall
    /\ analytics = NoAnalytics
    /\ boot = NoBoot

NextMulti == Lifecycle

SpecMulti == InitMulti /\ [][NextMulti]_vars

\* two callers inside make_call at once
NextConc ==
    \/ PhoneNext(Callers)

SpecConc == InitMulti /\ [][NextConc]_vars

\* one call and the in-call controls
NextControls ==
    \/ PhoneNext({1})
    \/ \E uri \in IncomingUris : onIncomingCall(uri)
    \/ answer_call(1)
    \/ answer_call_use(1)
    \/ hold(1)
    \/ hold_use(1)
    \/ resume(1)
    \/ resume_use(1)
    \/ mute(1)
    \/ mute_use(1)
    \/ unmute(1)
    \/ unmute_use(1)
    \/ \E digits \in DtmfInputs : send_dtmf(1, digits)
    \/ send_dtmf_use(1)

SpecControls == Init /\ [][NextControls]_vars

\* one caller dialling destinations of every shape
NextDial ==
    \/ PhoneNext({1})
    \/ \E d \in BadDestinations : make_call_record(1, d)
    \/ \E d \in BadDestinations : make_call_demo(1, d)

SpecDial == Init /\ [][NextDial]_vars

\* a registered softphone with call.auto_answer at its default (off), one
\* caller and the engine delivering every pending DISCONNECTED: the
\* engine's one worker thread runs its callbacks one after the other, so
\* an event that has to wait for the callback of another call is still
\* delivered (strong fairness), and a callback that has begun runs to its
\* last line (weak fairness)
InitRelease ==
    /\ Init
    /\ mode = "real"
    /\ account
    /\ ~config.auto_answer

NextRelease ==
    \/ \E d \in Destinations : make_call_record(1, d)
    \/ make_call_dial(1)
    \/ \E uri \in IncomingUris : onIncomingCall(uri)
    \/ \E c \in 1..cap, st \in {"CALLING", "EARLY", "CONFIRMED",
                                     "DISCONNECTED"} : onCallState(c, st)
    \/ \E c \in 1..cap : onCallState_slot(c)
    \/ hangup(1)
    \/ hangup_use(1)

\* some pending DISCONNECTED event is delivered, and the callback that
\* has begun reaches its last line; with finitely many calls this
\* delivers every pending DISCONNECTED
EventsDelivered ==
    /\ SF_vars(\E c \in 1..(MaxCalls + 1) : onCallState(c, "DISCONNECTED"))
    /\ WF_vars(\E c \in 1..(MaxCalls + 1) : onCallState_slot(c))

SpecRelease == InitRelease /\ [][NextRelease]_vars /\ EventsDelivered

\* the same softphone with room for a call after the first: calls are
\* placed, ring in, are hung up, and calls are placed again, in any order;
\* recording.auto_record is off, one destination and one remote party
InitRedial ==
    /\ InitMulti
    /\ mode = "real"
    /\ account
    /\ ~config.auto_answer
    /\ ~config.auto_record

NextRedial ==
    \/ make_call_record(1, <<"1001">>)
    \/ make_call_dial(1)
    \/ onIncomingCall(<<"sip", ":", "alice", "@", "pbx">>)
    \/ \E c \in 1..cap, st \in {"CALLING", "EARLY", "CONFIRMED",
                                     "DISCONNECTED"} : onCallState(c, st)
    \/ \E c \in 1..cap : onCallState_slot(c)
    \/ hangup(1)
    \/ hangup_use(1)

SpecRedial == InitRedial /\ [][NextRedial]_vars /\ EventsDelivered

\* a registered softphone, its calls and the engine's state events with
\* the clock: the part of the lifecycle that stamps and records a call
InitRecord ==
    /\ Init
    /\ mode = "real"
    /\ account

NextRecord ==
    \/ Tick
    \/ \E d \in Destinations : make_call_record(1, d)
    \/ make_call_dial(1)
    \/ \E uri \in IncomingUris : onIncomingCall(uri)
    \/ \E c \in 1..cap, st \in {"CALLING", "EARLY", "CONFIRMED",
                                     "DISCONNECTED"} : onCallState(c, st)
    \/ \E c \in 1..cap : onCallState_slot(c)

SpecRecord == InitRecord /\ [][NextRecord]_vars

\* every way a call is placed or arrives, on a softphone of any kind,
\* before the engine reports on it
NextPlace ==
    \/ Tick
    \/ \E d \in Destinations : make_call_noclient(1, d)
    \/ \E d \in Destinations : make_call_unregistered(1, d)
    \/ \E d \in Destinations : make_call_record(1, d)
    \/ make_call_dial(1)
    \/ \E d \in Destinations : make_call_demo(1, d)
    \/ \E uri \in IncomingUris : onIncomingCall(uri)

SpecPlace == Init /\ [][NextPlace]_vars

\* the call-centre backend: the requests of the clients, two workers
\* inside hangup_call beside them, and the clock
InitBackend ==
    /\ Init
    /\ mode = "disabled"
    /\ config = [auto_record |-> TRUE, auto_answer |-> FALSE]

NextBackend ==
    \/ Tick
    \/ \E ok \in BOOLEAN, chan \in ChannelIds : backend_make_call(ok, chan)
    \/ \E id \in 1..(MaxSessions + 1) : backend_hangup_unknown(id)
    \/ \E w \in Callers, id \in 1..MaxSessions : backend_hangup_call(w, id)
    \/ \E w \in Callers, ok \in BOOLEAN : backend_hangup_save(w, ok)
    \/ \E w \in Callers, stored \in BOOLEAN : backend_hangup_log(w, stored)

SpecBackend == InitBackend /\ [][NextBackend]_vars

\* the same requests beside the incoming calls that ari.log_incoming_call
\* enters in the CallLog, at one moment of the clock; the second worker
\* takes the hangups of the first session, beside those of the first
\* worker
NextDesk ==
    \/ \E ok \in BOOLEAN, chan \in ChannelIds : backend_make_call(ok, chan)
    \/ \E id \in 1..(MaxSessions + 1) : backend_hangup_unknown(id)
    \/ \E id \in 1..MaxSessions : backend_hangup_call(1, id)
    \/ backend_hangup_call(2, 1)
    \/ \E w \in Callers, ok \in BOOLEAN : backend_hangup_save(w, ok)
    \/ \E w \in Callers, stored \in BOOLEAN : backend_hangup_log(w, stored)
    \/ log_incoming_call

SpecDesk == InitBackend /\ [][NextDesk]_vars

\* the enrichment workers over the store an earlier run left behind
StoredRow(recorded) ==
    [NewRow(<<"sip", ":", "alice", "@", "pbx">>, "inbound", "answered", 1)
        EXCEPT !.end_time = 1,
               !.recording_path =
                   IF recorded
                   THEN [set |-> TRUE, remote |-> <<"alice">>, ts |-> 1]
                   ELSE NoPath]

InitEnrich ==
    /\ cap = MaxCalls
    /\ mode = "disabled"
    /\ account = FALSE
    /\ config = [auto_record |-> TRUE, auto_answer |-> FALSE]
    /\ calls = <<>>
    /\ current_call = None
    /\ \E n \in 0..cap :
          \E recorded \in [1..n -> BOOLEAN] :
             /\ history = [r \in 1..n |-> StoredRow(recorded[r])]
             /\ mem = [r \in 1..n |-> NewObj(StoredRow(recorded[r]),
                                              "closed")]
    /\ now = 1
    /\ pc = [t \in Callers |-> "idle"]
    /\ pend = [t \in Callers |-> NoLocals]
    /\ ret = [t \in Callers |-> "none"]
    /\ out = "none"
    /\ req = "none"
    /\ http = 0
    /\ sessions = <<>>
    /\ calllog = <<>>
    /\ resp = 0
    /\ closing = [w \in Callers |-> NoClosing]
    /\ ai \in Instances
    /\ jobs = <<>>
    /\ last = NoCall
    /\ analytics = NoAnalytics
    /\ boot = NoBoot

NextEnrich ==
    \/ \E id \in 1..(MaxCalls + 1) : process_call_async(id)
    \/ \E j \in 1..MaxJobs : job_guards(j)
    \/ \E j \in 1..MaxJobs : job_transcribe(j)
    \/ \E j \in 1..MaxJobs : job_sentiment(j)
    \/ \E j \in 1..MaxJobs : job_summary(j)

SpecEnrich == InitEnrich /\ [][NextEnrich]_vars

\* the softphone, set to answer and record by itself, taking an inbound
\* call while workers enrich the store: ended calls are stored, every model
\* is loaded and process_call_async has been called once for each stored
\* call
InitFrame ==
    /\ cap = MaxCalls + 2
    /\ mode = "real"
    /\ account = TRUE
    /\ config \in [auto_record : {TRUE}, auto_answer : {TRUE}]
    /\ calls = <<>>
    /\ current_call = None
    /\ history = [r \in 1..(MaxCalls + 1) |-> StoredRow(TRUE)]
    /\ mem = [r \in 1..(MaxCalls + 1) |-> NewObj(StoredRow(TRUE), "closed")]
    /\ now = 1
    /\ pc = [t \in Callers |-> "idle"]
    /\ pend = [t \in Callers |-> NoLocals]
    /\ ret = [t \in Callers |-> "none"]
    /\ out = "none"
    /\ req = "none"
    /\ http = 0
    /\ sessions = <<>>
    /\ calllog = <<>>
    /\ resp = 0
    /\ closing = [w \in Callers |-> NoClosing]
    /\ ai = AIAnalytics(TRUE, TRUE, TRUE, "pipeline", "pipeline")
    /\ jobs = [r \in 1..(MaxCalls + 1) |->
                  [call_id |-> r, pos |-> "start", transcript |-> NoText,
                   stages |-> {}, tries |-> 0, got |-> {},
                             file |-> "unchecked"]]
    /\ last = NoCall
    /\ analytics = NoAnalytics
    /\ boot = NoBoot

NextFrame ==
    \/ onIncomingCall(<<"sip", ":", "alice", "@", "pbx">>)
    \/ \E c \in 1..cap, st \in {"CONFIRMED", "DISCONNECTED"} :
          onCallState(c, st)
    \/ \E c \in 1..cap : onCallState_slot(c)
    \/ \E j \in 1..(MaxCalls + 1) : job_guards(j)
    \/ \E j \in 1..(MaxCalls + 1) : job_transcribe(j)
    \/ \E j \in 1..(MaxCalls + 1) : job_sentiment(j)
    \/ \E j \in 1..(MaxCalls + 1) : job_summary(j)

SpecFrame == InitFrame /\ [][NextFrame]_vars

\* the softphone with status queries running beside the engine's callbacks
NextQuery ==
    \/ Lifecycle
    \/ \E t \in Callers : get_call_status_check(t)
    \/ \E t \in Callers : get_call_status_use(t)

SpecQuery == Init /\ [][NextQuery]_vars

\* threads asking for the enrichment backend, for any configuration of it
NextSingleton ==
    \/ \E t \in Callers : get_ai_analytics_check(t)
    \/ \E t \in Callers, raises \in BOOLEAN :
          get_ai_analytics_construct(t, raises)

SpecSingleton == InitEnrich /\ [][NextSingleton]_vars

\* the main application starting, over every outcome of its steps
InitBoot ==
    /\ Init
    /\ mode \in {"real", "disabled"}
    /\ ~account

NextBoot ==
    \/ \E ok \in BOOLEAN : main_load_config(ok)
    \/ \E ok \in BOOLEAN : main_init_db(ok)
    \/ \E ok \in BOOLEAN : main_init_ai(ok)
    \/ main_start_thread
    \/ \E ok \in BOOLEAN : start_sip(ok)
    \/ \E ok \in BOOLEAN : main_serve(ok)
    \/ \E ok \in BOOLEAN : startup_event(ok)
    \/ \E bound \in BOOLEAN : main_listen(bound)

SpecBoot == InitBoot /\ [][NextBoot]_vars

\* the legacy client without pjsua2: one simulated call at a time, its
\* controls, and the clock
InitDemo ==
    /\ Init
    /\ mode = "demo"

NextDemo ==
    \/ Tick
    \/ \E d \in Destinations : make_call_demo(1, d)
    \/ hangup(1)
    \/ hold(1)
    \/ hold_use(1)
    \/ resume(1)
    \/ resume_use(1)
    \/ mute(1)
    \/ mute_use(1)
    \/ unmute(1)
    \/ unmute_use(1)
    \/ \E digits \in DtmfInputs : send_dtmf(1, digits)
    \/ send_dtmf_use(1)

SpecDemo == InitDemo /\ [][NextDemo]_vars

\* a registered softphone, recording.auto_record off, making and ending a
\* call while workers, over a speech service that may never answer, enrich
\* the first stored call
InitAsync ==
    /\ cap = MaxCalls + 1
    /\ mode = "real"
    /\ account = TRUE
    /\ config \in [auto_record : {FALSE}, auto_answer : {FALSE}]
    /\ calls = <<>>
    /\ current_call = None
    /\ history = [r \in 1..MaxCalls |-> StoredRow(TRUE)]
    /\ mem = [r \in 1..MaxCalls |-> NewObj(StoredRow(TRUE), "closed")]
    /\ now = 1
    /\ pc = [t \in Callers |-> "idle"]
    /\ pend = [t \in Callers |-> NoLocals]
    /\ ret = [t \in Callers |-> "none"]
    /\ out = "none"
    /\ req = "none"
    /\ http = 0
    /\ sessions = <<>>
    /\ calllog = <<>>
    /\ resp = 0
    /\ closing = [w \in Callers |-> NoClosing]
    /\ ai = AIAnalytics(TRUE, TRUE, TRUE, "None", "None")
    /\ jobs = <<>>
    /\ last = NoCall
    /\ analytics = NoAnalytics
    /\ boot = NoBoot

NextAsync ==
    \/ \E d \in Destinations : make_call_record(1, d)
    \/ make_call_dial(1)
    \/ hangup(1)
    \/ hangup_use(1)
    \/ \E c \in 1..cap, st \in {"CALLING", "CONFIRMED", "DISCONNECTED"} :
          onCallState(c, st)
    \/ \E c \in 1..cap : onCallState_slot(c)
    \/ process_call_async(1)
    \/ \E j \in 1..MaxJobs : job_guards(j)
    \/ \E j \in 1..MaxJobs : job_transcribe(j)
    \/ \E j \in 1..MaxJobs : job_sentiment(j)
    \/ \E j \in 1..MaxJobs : job_summary(j)
    \/ \E j \in 1..MaxJobs : job_blocked(j)

SpecAsync == InitAsync /\ [][NextAsync]_vars

\* the workers over backends that may never answer
NextHang ==
    \/ NextEnrich
    \/ \E j \in 1..MaxJobs : job_blocked(j)

SpecHang == InitEnrich /\ [][NextHang]_vars

\* the two text functions called directly on texts of every shape
InitText ==
    /\ InitEnrich
    /\ history = <<>>

NextText ==
    \/ \E text \in TextInputs, reply \in Replies(Labels) :
          call_analyze_sentiment(text, reply)
    \/ \E text \in TextInputs, reply \in Replies(Summaries) :
          call_generate_summary(text, reply)

SpecText == InitText /\ [][NextText]_vars

\* ================================================================ claims
\* records of calls the engine has reported DISCONNECTED
Ended(c) == calls[c].kind = "real" /\ calls[c].state = "DISCONNECTED"
RecordOf(c) == mem[calls[c].call_record]

\* C1: at most one call session is Ringing, Connected or Held at any time.
C1_AtMostOneActive == Cardinality(ActiveCalls) <= 1

\* C2: a make_call invoked while a session is active creates no CallHistory
\* record, no session, and leaves the active-session slot as it was.
MakeCallInvoked ==
    \E t \in Callers, d \in Destinations :
        make_call_record(t, d) \/ make_call_demo(t, d)

C2_DialWhileActiveIsBusy ==
    [][(ActiveCalls # {} /\ MakeCallInvoked)
          => /\ history' = history
             /\ calls' = calls
             /\ current_call' = current_call
             /\ \A t \in Callers : pc'[t] = "idle"]_vars

\* C3: of two make_call invocations that overlap, only one returns a
\* session: a caller still inside make_call after a call was created by
\* an invocation that began later does not return a call itself.
OvertakenIn(t) ==
    /\ pc[t] = "dial"
    /\ \E c \in DOMAIN calls : calls[c].call_record > pend[t].rec

C3_OneOfTwoDialsWins ==
    [][\A t \in Callers :
          (OvertakenIn(t) /\ pc'[t] = "idle") => ret'[t] # "call"]_vars

\* C4: hangup invoked when the slot is empty (the session has ended) is a
\* no-op: it reports "No active call" and changes no call, no record and
\* not the slot.
C4_HangupAfterEndedIsNoOp ==
    [][\A t \in Callers :
          (hangup(t) /\ mode # "noclient" /\ current_call = None)
          => /\ out' = "No active call"
             /\ http' = 200
             /\ pc'[t] = "idle"
             /\ UNCHANGED <<calls, current_call, history, mem>>]_vars

C4_Witness ==
    /\ out = "No active call"
    /\ current_call = None
    /\ \E c \in DOMAIN calls :
          /\ Ended(c)
          /\ calls[c].hangup_sent
          /\ RecordOf(c).end_time # None

\* C5: backend hangup_call on a CallSession that is already 'ended' leaves
\* ended_at, the duration and the CallLog rows unchanged.
C5_BackendHangupIdempotent ==
    [][\A w \in Callers :
          (closing[w].stage = "ari"
           /\ sessions[closing[w].call].status = "ended"
           /\ closing[w].row.status = "ended"
           /\ \E ok \in BOOLEAN : backend_hangup_save(w, ok))
          => /\ sessions'[closing[w].call].ended_at
                    = sessions[closing[w].call].ended_at
             /\ SessionDuration(sessions'[closing[w].call], now')
                    = SessionDuration(sessions[closing[w].call], now)
             /\ closing'[w] = NoClosing]_vars

\* C6: what a transition wrote to a call's record is what a reader with a
\* store session of its own gets: no update is left uncommitted.
C6_TransitionsCommitted ==
    \A r \in DOMAIN history :
        /\ get_call_details(r).status = mem[r].status
        /\ get_call_details(r).start_time = mem[r].start_time
        /\ get_call_details(r).end_time = mem[r].end_time
        /\ get_call_details(r).duration = mem[r].duration
        /\ get_call_details(r).recording_path = mem[r].recording_path

\* C7: the record of a call reported DISCONNECTED has end_time stamped and
\* a terminal status.
C7_EndedRecordIsTerminal ==
    \A c \in DOMAIN calls :
        Ended(c) => /\ RecordOf(c).end_time # None
                    /\ RecordOf(c).status \in {"ended", "failed"}

\* C8: the record of an ended call has duration = end_time - connect time
\* if the call was connected and 0 if not; duration is never negative.
C8_DurationIsEndMinusConnect ==
    \A c \in DOMAIN calls :
        Ended(c) =>
            /\ RecordOf(c).duration >= 0
            /\ IF calls[c].call_start_time # None
               THEN RecordOf(c).duration
                        = RecordOf(c).end_time - calls[c].call_start_time
               ELSE RecordOf(c).duration = 0

\* C9: a record's recording_path, in memory or committed, is set only if
\* the engine started capture for the call of that record.
C9_PathOnlyIfCaptureStarted ==
    \A r \in DOMAIN mem :
        (mem[r].recording_path.set \/ history[r].recording_path.set)
            => \E c \in DOMAIN calls :
                  calls[c].call_record = r /\ calls[c].capture

C9_Witness ==
    \E c \in DOMAIN calls :
        /\ config.auto_record
        /\ calls[c].kind = "real"
        /\ calls[c].call_start_time # None
        /\ ~calls[c].capture
        /\ ~RecordOf(c).recording_path.set

\* C10: when recording start fails on the first CONFIRMED, the handler
\* still completes: the call is Connected and is the active session, its
\* record holds 'answered' and the connect time, and no recording_path.
RecordingFailedAt(c) ==
    /\ config.auto_record
    /\ onCallState(c, "CONFIRMED")
    /\ FirstConfirmed(calls[c], "CONFIRMED")
    /\ ~calls'[c].capture

C10_RecordingFailureContained ==
    [][\A c \in DOMAIN calls :
          /\ RecordingFailedAt(c)
             => /\ Connected(calls'[c])
                \* the handler goes on to its last line ...
                /\ calls'[c].cb = "CONFIRMED"
                /\ calls'[c].call_start_time = now
                /\ mem'[calls[c].call_record].status = "answered"
                /\ mem'[calls[c].call_record].start_time = now
                /\ ~mem'[calls[c].call_record].recording_path.set
          \* ... which makes the call the active session
          /\ (onCallState_slot(c) /\ calls[c].cb = "CONFIRMED")
             => /\ current_call' = c
                /\ calls'[c].state = "CONFIRMED"]_vars

C10_Witness ==
    \E c \in DOMAIN calls :
        /\ config.auto_record
        /\ calls[c].kind = "real"
        /\ Connected(calls[c])
        /\ ~calls[c].capture
        /\ current_call = c
        /\ RecordOf(c).status = "answered"
        /\ RecordOf(c).start_time = calls[c].call_start_time
        /\ ~RecordOf(c).recording_path.set

\* C11: start_recording is called once per call, on the first CONFIRMED,
\* when auto_record is on and never when it is off; the connect time is
\* stamped once and is the time of that first CONFIRMED (the start_time
\* written to the record with it), whatever CONFIRMED events follow.
C11_RecordingStartedOncePerCall ==
    \A c \in DOMAIN calls :
        calls[c].kind = "real" =>
            /\ calls[c].stamps
                   = (IF calls[c].call_start_time # None THEN 1 ELSE 0)
            /\ calls[c].recordings
                   = (IF config.auto_record THEN calls[c].stamps ELSE 0)
            /\ calls[c].call_start_time # None
                   => calls[c].call_start_time = RecordOf(c).start_time

\* a second CONFIRMED was delivered to a connected call
C11_Witness ==
    /\ out = "CONFIRMED"
    /\ config.auto_record
    /\ \E c \in DOMAIN calls :
          /\ calls[c].kind = "real"
          /\ calls[c].state = "CONFIRMED"
          /\ calls[c].recordings = 1
          /\ calls[c].call_start_time # None
          /\ calls[c].call_start_time < now

\* C12: for every call reported DISCONNECTED whose record holds a
\* recording_path, exactly one process_call_recording worker has been
\* started for that record.
JobsFor(r) == {j \in DOMAIN jobs : jobs[j].call_id = r}

C12_EnrichmentStartedOnce ==
    \A c \in DOMAIN calls :
        (Ended(c) /\ RecordOf(c).recording_path.set)
            => Cardinality(JobsFor(calls[c].call_record)) = 1

\* C13: a record's sentiment or summary is set only if its transcript is
\* a non-empty text, and a worker whose transcription returned nothing
\* runs neither the sentiment nor the summary stage.
C13_EnrichmentNeedsTranscript ==
    /\ \A r \in DOMAIN history :
          (history[r].sentiment.set \/ history[r].summary.set)
              => Truthy(history[r].transcript)
    /\ \A j \in DOMAIN jobs :
          ~Truthy(jobs[j].transcript)
              => jobs[j].stages \cap {"sentiment", "summary"} = {}

\* one worker stopped after an absent transcription while another one
\* wrote transcript and sentiment
C13_Witness ==
    /\ \E j \in DOMAIN jobs :
          /\ jobs[j].pos = "done"
          /\ jobs[j].stages = {"transcribe"}
          /\ ~Truthy(jobs[j].transcript)
    /\ \E r \in DOMAIN history :
          Truthy(history[r].transcript) /\ history[r].sentiment.set

\* C14: generate_summary on a non-empty text of fewer than 50 words
\* returns "Call too short for summary" and hands nothing to the
\* summarizer, on every AIAnalytics instance: enabled or disabled, with or
\* without a loaded summarizer.
ShortSummaryCall ==
    /\ last.fn = "generate_summary"
    /\ Truthy(last.text)
    /\ WordCount(last.text.body) < SummaryMinWords

C14_ShortTextGetsSentinel ==
    ShortSummaryCall
        => /\ ~last.result.raises
           /\ last.result.ret = TooShort
           /\ last.result.sent = NoText

\* C15: hold on a session that is not Connected, and resume on one that
\* is not Held, is refused: the endpoint does not answer success, no call
\* flag and no history record changes, and the engine gets no request.
Refused ==
    /\ http' # 200
    /\ req' = "none"
    /\ UNCHANGED <<calls, history, mem>>

C15_HoldResumeOnlyInState ==
    [][\A t \in Callers :
          /\ (~NoActiveCall /\ hold_use(t) /\ ~Connected(calls[current_call]))
                => Refused
          /\ (~NoActiveCall /\ resume_use(t) /\ ~Held(calls[current_call]))
                => Refused]_vars

\* C16: mute and unmute change nothing but is_muted of the current call,
\* and are refused unless the session is Connected or Held; hold and
\* resume leave is_muted as it was.
OnlyMuteFlagChanges ==
    /\ calls' = [calls EXCEPT
                   ![current_call].is_muted = calls'[current_call].is_muted]
    /\ UNCHANGED <<current_call, history, mem>>

C16_MuteIsAFlagOfLiveCalls ==
    [][\A t \in Callers :
          /\ (~NoActiveCall /\ (mute_use(t) \/ unmute_use(t)))
                => /\ OnlyMuteFlagChanges
                   /\ ~(Connected(calls[current_call])
                           \/ Held(calls[current_call]))
                         => (calls' = calls /\ http' # 200)
          /\ (~NoActiveCall /\ (hold_use(t) \/ resume_use(t)))
                => calls'[current_call].is_muted
                       = calls[current_call].is_muted]_vars

\* C17: send_dtmf is refused unless the session is Connected and digits
\* is a non-empty string over 0-9, A-D, * and #: the endpoint does not
\* answer success and dialDtmf is not called.
ValidDigits(digits) ==
    /\ digits # <<>>
    /\ \A i \in DOMAIN digits : digits[i] \in EngineTones

C17_DtmfValidated ==
    [][\A t \in Callers :
          (/\ ~NoActiveCall
           /\ send_dtmf_use(t)
           /\ ~(Connected(calls[current_call])
                   /\ ValidDigits(pend[t].dest)))
          => /\ http' # 200
             /\ req' = "none"
             /\ out' \notin {"DTMF sent", "Demo DTMF"}]_vars

\* C18: answer_call with no current session, or with a current session
\* that is not an inbound ringing one, is refused: the endpoint does not
\* answer success and no answer goes to the engine.
IncomingRinging ==
    /\ ~NoActiveCall
    /\ Ringing(calls[current_call])
    /\ calls[current_call].direction = "inbound"

C18_AnswerOnlyWhenRinging ==
    [][\A t \in Callers :
          (/\ (answer_call(t) /\ pc'[t] = "idle") \/ answer_call_use(t)
           /\ ~IncomingRinging)
          => /\ http' # 200
             /\ req' = "none"
             /\ calls' = calls]_vars

\* C19: make_call with an empty or malformed destination is refused at
\* once: it adds no CallHistory record, creates no session and does not
\* go on to dial.
C19_BadDestinationRefused ==
    [][\A t \in Callers, d \in BadDestinations :
          (make_call_record(t, d) \/ make_call_demo(t, d))
          => /\ history' = history
             /\ calls' = calls
             /\ current_call' = current_call
             /\ pc'[t] = "idle"
             /\ ret'[t] = "None"]_vars

\* C20: in demo mode the call made by make_call is Connected while it is
\* the current call, and once it was muted, resumed and hung up (the slot
\* is empty again) the record written for it is the only one and has
\* status 'ended', no recording_path and a duration that is not negative.
DemoCallHungUp ==
    /\ mode = "demo"
    /\ calls # <<>>
    /\ calls[1].kind = "mock"
    /\ calls[1].is_muted
    /\ ~calls[1].on_hold
    /\ current_call = None

C20_DemoScenarioLeavesEndedRecord ==
    /\ (mode = "demo" /\ current_call # None /\ out = "none")
          => Connected(calls[current_call])
    /\ (DemoCallHungUp /\ history # <<>>)
          => /\ Len(history) = 1
             /\ history[1].status = "ended"
             /\ ~history[1].recording_path.set
             /\ history[1].duration >= 0

\* C21: a call-control endpoint answers success only when the operation
\* took effect: never together with a message saying that the operation
\* failed or that there was no call to answer.  (hangup with nothing to
\* hang up is left out: it is a no-op by C4.)
FailureMessages ==
    {"No incoming call", "Answer failed", "Hold failed", "Resume failed",
     "Mute failed", "Unmute failed", "DTMF failed"}

C21_SuccessOnlyIfEffect == http = 200 => out \notin FailureMessages

\* C22: a call reported DISCONNECTED had stop_recording called iff the
\* engine had started capture for it.
C22_RecordingStoppedOnEnd ==
    \A c \in DOMAIN calls :
        Ended(c) => (calls[c].stopped <=> calls[c].capture)

\* C23: once hangup was sent for the current call, the slot is eventually
\* empty and get_call_status answers {'active': False}, provided the
\* engine delivers the DISCONNECTED event; and whenever a hung-up session
\* has ended and left the slot empty, make_call by an idle caller is
\* accepted: it goes on to record and dial the new call.
HangupAccepted ==
    /\ current_call # None
    /\ calls[current_call].hangup_sent

ReleasedByHangup ==
    /\ current_call = None
    /\ ~get_call_status.active
    /\ \E c \in DOMAIN calls : Ended(c) /\ calls[c].hangup_sent

\* the caller is in no other operation and the run has room for a call
CallerFree(t) ==
    /\ pc[t] = "idle"
    /\ Len(history) < cap
    /\ Len(calls) + Cardinality(Dialing) < cap

C23_SlotReleasedAfterHangup ==
    /\ HangupAccepted ~> (current_call = None /\ ~get_call_status.active)
    /\ [](\A t \in Callers :
             (ReleasedByHangup /\ CallerFree(t))
                 => ENABLED make_call_record(t, <<"1001">>))

\* the DISCONNECTED event of a hung-up call has emptied the slot, and a
\* make_call after it has returned a new call
C23_Witness ==
    /\ EngineIdle
    /\ ReleasedByHangup
    /\ Len(calls) = 2
    /\ Ended(1)
    /\ calls[1].hangup_sent
    /\ calls[2].direction = "outbound"
    /\ calls[2].state = "NULL"
    /\ ret[1] = "call"

\* C24: while a different call is still active, a state event for one
\* call neither empties the slot nor takes it away from the active call
\* it refers to.
EngineStates == {"CALLING", "EARLY", "CONFIRMED", "DISCONNECTED"}

C24_SlotKeptForActiveCall ==
    [][\A c \in DOMAIN calls, st \in EngineStates :
          (onCallState_slot(c) /\ calls[c].cb = st
              /\ ActiveCalls \ {c} # {})
          => /\ current_call' # None
             /\ current_call \in ActiveCalls \ {c}
                   => current_call' = current_call]_vars

\* C25: sessions and records come in pairs: every active session has its
\* CallHistory record, and every record of the real client belongs to a
\* call that was created, or to a make_call still on its way to makeCall.
RecordHasCall(r) ==
    \/ \E c \in DOMAIN calls : calls[c].call_record = r
    \/ \E t \in Callers : pc[t] = "dial" /\ pend[t].rec = r

C25_SessionAndRecordTogether ==
    /\ \A c \in ActiveCalls :
          IF calls[c].kind = "real"
          THEN calls[c].call_record \in DOMAIN history
          ELSE \E r \in DOMAIN history :
                  history[r].remote_uri = calls[c].remote_uri
    /\ mode = "real" => \A r \in DOMAIN history : RecordHasCall(r)

\* C26: a worker that ran the sentiment stage and finished also ran the
\* summary stage, whatever the sentiment stage gave; the summary it got is
\* on its record, a record for which no worker got a sentiment has none,
\* and every stage was called once.
C26_StagesIndependent ==
    /\ \A j \in DOMAIN jobs :
          /\ (jobs[j].pos = "done" /\ "sentiment" \in jobs[j].stages)
                => "summary" \in jobs[j].stages
          /\ "summary" \in jobs[j].got
                => history[jobs[j].call_id].summary.set
          /\ jobs[j].tries = Cardinality(jobs[j].stages)
    /\ \A r \in DOMAIN history :
          (\A j \in JobsFor(r) : "sentiment" \notin jobs[j].got)
              => ~history[r].sentiment.set

\* a finished worker whose sentiment stage gave nothing and whose summary
\* is stored on a record with no sentiment
C26_Witness ==
    \E j \in DOMAIN jobs :
        /\ jobs[j].pos = "done"
        /\ "sentiment" \in jobs[j].stages \ jobs[j].got
        /\ "summary" \in jobs[j].got
        /\ history[jobs[j].call_id].summary.set
        /\ ~history[jobs[j].call_id].sentiment.set

\* C27: whatever a worker got from a stage is on its record from the moment
\* the stage is over, before the next stage begins; a worker that stops in
\* a later stage, wherever, leaves it stored.
C27_StageCommittedBeforeNext ==
    \A j \in DOMAIN jobs :
        /\ "transcribe" \in jobs[j].got
              => Truthy(history[jobs[j].call_id].transcript)
        /\ "sentiment" \in jobs[j].got
              => history[jobs[j].call_id].sentiment.set
        /\ "summary" \in jobs[j].got
              => history[jobs[j].call_id].summary.set

\* a worker about to begin the summary stage: transcript and sentiment are
\* on the record, the summary is not
C27_Witness ==
    \E j \in DOMAIN jobs :
        /\ jobs[j].pos = "summary"
        /\ jobs[j].got = {"transcribe", "sentiment"}
        /\ Truthy(history[jobs[j].call_id].transcript)
        /\ history[jobs[j].call_id].sentiment.set
        /\ ~history[jobs[j].call_id].summary.set

\* C28: no worker stays inside a backend call for ever: each one is before
\* a stage or inside one whose call returns, or at its end with its session
\* closed.
C28_WorkerReachesEnd ==
    \A j \in DOMAIN jobs :
        jobs[j].pos \in {"start", "transcribe", "sentiment", "summary",
                         "done"}

\* C29: a worker's step changes no column of any record but transcript,
\* sentiment and summary, and those only on the record of its own call_id;
\* a step of the softphone adds records without these three and changes
\* them on none.
Core(row) ==
    [f \in DOMAIN row \ {"transcript", "sentiment", "summary"} |-> row[f]]

Texts(row) ==
    [f \in {"transcript", "sentiment", "summary"} |-> row[f]]

C29_EnrichmentFrame ==
    [][IF jobs' # jobs
       THEN /\ DOMAIN history' = DOMAIN history
            /\ \A r \in DOMAIN history :
                  /\ Core(history'[r]) = Core(history[r])
                  /\ history'[r] # history[r]
                        => \E j \in DOMAIN jobs :
                              /\ jobs'[j] # jobs[j]
                              /\ jobs[j].call_id = r
       ELSE /\ \A r \in DOMAIN history :
                  Texts(history'[r]) = Texts(history[r])
            /\ \A r \in DOMAIN history' \ DOMAIN history :
                  Texts(history'[r]) = Texts(NewRow(<<>>, "", "", 0))]_vars

\* two workers have written the records of two different calls, and the
\* softphone's columns of an enriched record are committed
C29_Witness ==
    /\ \E i, j \in DOMAIN jobs :
          /\ jobs[i].call_id # jobs[j].call_id
          /\ "transcribe" \in jobs[i].got
          /\ "transcribe" \in jobs[j].got
    /\ Len(history) = cap

\* C30: a status query that runs beside the engine's callbacks returns a
\* snapshot of the active call or {'active': False}; it never ends in an
\* AttributeError from an emptied slot.
C30_QueryNeverUsesEmptiedSlot ==
    \A t \in Callers : ret[t] # "AttributeError"

\* C31: at most one AIAnalytics is ever constructed, and every caller of
\* get_ai_analytics that got an instance got the same one.
C31_BackendLoadedOnce ==
    /\ analytics.built <= 1
    /\ \A t, u \in Callers :
          (analytics.given[t] # None /\ analytics.given[u] # None)
              => analytics.given[t] = analytics.given[u]

\* C32: the process exits during startup only because config.yaml could
\* not be loaded or the listener could not be bound; after any other
\* failure main goes on to start the web server.
C32_OnlyConfigAndListenerAreFatal ==
    boot.stage = "exited" => boot.cause \in {"config", "listener"}

\* C39: the main application constructs at most one SIPClient: the one
\* start_sip starts and the one the endpoints use are the same object.
C39_OneClientPerProcess ==
    Cardinality(boot.clients) <= 1

\* C33: on a demo call, hold and resume change only on_hold, mute and
\* unmute only is_muted, send_dtmf nothing, and none of them touches the
\* history store or the slot; the status query reports CONFIRMED with the
\* whole seconds since the call was made, never negative and never
\* smaller than at an earlier query of the same call.
DemoCallInSlot ==
    /\ mode = "demo"
    /\ account
    /\ current_call # None

C33_DemoControlsAndDuration ==
    [][DemoCallInSlot =>
         LET c == current_call
         IN /\ out' \in {"Demo call held", "Demo call resumed"}
                  => /\ calls' = [calls EXCEPT
                                    ![c].on_hold = (out' = "Demo call held")]
                     /\ UNCHANGED <<current_call, history, mem>>
            /\ out' \in {"Demo call muted", "Demo call unmuted"}
                  => /\ calls' = [calls EXCEPT
                                    ![c].is_muted = (out' = "Demo call muted")]
                     /\ UNCHANGED <<current_call, history, mem>>
            /\ out' = "Demo DTMF"
                  => UNCHANGED <<calls, current_call, history, mem>>
            /\ get_call_status.state = "CONFIRMED"
            /\ get_call_status.duration = now - calls[c].start_time
            /\ get_call_status.duration >= 0
            /\ current_call' = c
                  => get_call_status'.duration >= get_call_status.duration]_vars

\* a demo call, held and muted, queried a second or more after it was made
C33_Witness ==
    /\ DemoCallInSlot
    /\ calls[current_call].on_hold
    /\ calls[current_call].is_muted
    /\ get_call_status.duration >= 1
    /\ out = "Demo DTMF"

\* C34: process_call_async only starts a worker, which has run no stage
\* and written nothing when the call returns; and no step of a worker
\* changes anything a call-control operation waits for or reads: the
\* callers' positions, the account, the sessions, the slot, the number of
\* records.
InFlight(j) == jobs[j].pos # "done"

C34_EnrichmentNeverBlocks ==
    [][jobs' # jobs =>
         /\ UNCHANGED <<cap, mode, account, config, calls, current_call, mem,
                        pc, pend, ret>>
         /\ Len(history') = Len(history)
         /\ Len(jobs') > Len(jobs)
               => /\ history' = history
                  /\ jobs'[Len(jobs')].stages = {}
                  /\ jobs'[Len(jobs')].pos = "start"]_vars

\* a hangup has just gone through while a worker sits in a backend call
\* that never answers
C34_Witness ==
    /\ \E j \in DOMAIN jobs : jobs[j].pos = "blocked"
    /\ out = "Call ended"
    /\ req = "hangup"

\* C35: a worker for a disabled instance, for a call_id with no record,
\* for a record without recording_path, or for a recording file that does
\* not exist has called no stage and got nothing, and a record that no
\* worker got past these checks for has no transcript, sentiment or
\* summary.
GuardStops(j) ==
    \/ ~ai.enabled
    \/ jobs[j].call_id \notin DOMAIN history
    \/ ~history[jobs[j].call_id].recording_path.set
    \/ jobs[j].file = "no"

C35_GuardsStopThePipeline ==
    /\ \A j \in DOMAIN jobs :
          (jobs[j].pos # "start" /\ GuardStops(j))
              => /\ jobs[j].pos = "done"
                 /\ jobs[j].stages = {}
                 /\ jobs[j].tries = 0
                 /\ jobs[j].got = {}
    /\ \A r \in DOMAIN history :
          (\A j \in JobsFor(r) : jobs[j].pos = "start" \/ GuardStops(j))
              => Texts(history[r]) = Texts(NewRow(<<>>, "", "", 0))

\* all four cases at once cannot be; here a worker stopped because the
\* file was missing while the record stays without texts, and another
\* stopped because its call_id has no record
C35_Witness ==
    /\ \E j \in DOMAIN jobs :
          /\ jobs[j].pos = "done"
          /\ jobs[j].file = "no"
          /\ Texts(history[jobs[j].call_id]) = Texts(NewRow(<<>>, "", "", 0))
    /\ \E j \in DOMAIN jobs :
          /\ jobs[j].pos = "done"
          /\ jobs[j].call_id \notin DOMAIN history

\* C37: every backend make_call adds exactly one CallSession with a call_id
\* no other session has: 'ringing' with ARI's channel id and a 201 when
\* the origination succeeded, 'initiated' and a 400 when it failed.
C37_BackendMakeCallPersists ==
    [][\A ok \in BOOLEAN, chan \in ChannelIds :
          backend_make_call(ok, chan)
              => /\ Len(sessions') = Len(sessions) + 1
                 /\ LET s == sessions'[Len(sessions')]
                    IN /\ \A i \in DOMAIN sessions :
                             sessions'[i] = sessions[i]
                             /\ sessions[i].call_id # s.call_id
                       /\ ok => /\ s.status = "ringing"
                                /\ s.channel_id = chan
                                /\ resp' = 201
                       /\ ~ok => /\ s.status = "initiated"
                                 /\ resp' = 400]_vars

\* C36: backend hangup_call on an existing CallSession leaves it 'ended'
\* with ended_at stamped at that moment, whatever ARI answered, and then
\* adds exactly one CallLog row for it, answering 200, or 206 when the ARI
\* request failed; for a call_id no session has it answers 404 and changes
\* no session and no CallLog row.  (A CallLog insert the store refuses is
\* not among the claim's cases: the request then ends in a 500 with the
\* session ended and no row added.)
C36_BackendHangupAlwaysEnds ==
    [][\A w \in Callers, id \in 1..(MaxSessions + 1) :
          /\ backend_hangup_call(w, id)
                => /\ UNCHANGED <<sessions, calllog, resp>>
                   /\ closing'[w].call = id
          /\ \A ok \in BOOLEAN :
                (backend_hangup_save(w, ok) /\ closing[w].call = id)
                    => /\ sessions'[id] = EndedSession(sessions[id], now)
                       /\ sessions'[id].status = "ended"
                       /\ sessions'[id].ended_at = now
                       /\ \A i \in DOMAIN sessions \ {id} :
                             sessions'[i] = sessions[i]
                       /\ calllog' = calllog
                       /\ closing'[w].call = id
                       /\ closing'[w].success
                              = (ok \/ sessions[id].channel_id = "")
          /\ (backend_hangup_log(w, TRUE) /\ closing[w].call = id)
                => /\ sessions' = sessions
                   /\ sessions[id].status = "ended"
                   /\ sessions[id].ended_at # None
                   /\ Len(calllog') = Len(calllog) + 1
                   /\ SubSeq(calllog', 1, Len(calllog)) = calllog
                   /\ calllog'[Len(calllog')].call = id
                   /\ calllog'[Len(calllog')].status = "completed"
                   /\ resp' = IF closing[w].success THEN 200 ELSE 206
          /\ backend_hangup_unknown(id)
                => /\ resp' = 404
                   /\ UNCHANGED <<sessions, calllog, closing>>]_vars

\* a hangup whose ARI request failed has just been answered with a
\* warning: the session is ended and stamped, a second CallLog row is
\* there because the session had been hung up before
C36_Witness ==
    /\ resp = 206
    /\ Len(calllog) >= 2
    /\ \E id \in DOMAIN sessions :
          /\ sessions[id].status = "ended"
          /\ sessions[id].ended_at = now
          /\ calllog[Len(calllog)].call = id
          /\ calllog[Len(calllog) - 1].call = id

\* C38: make_call of src/sip_client.py on a client with no registered
\* account (pjsua2 missing, or start not completed) returns None, adds no
\* CallHistory row and no call session, and the endpoint answers with an
\* error status; while the client is unregistered no step at all adds a
\* row or a session, and no caller gets past the registration check.
C38_UnregisteredMakeCallFails ==
    [][/\ \A t \in Callers, d \in Destinations :
             make_call_unregistered(t, d)
                 => /\ ret'[t] = "None"
                    /\ http' >= 400
                    /\ history' = history
                    /\ calls' = calls
                    /\ current_call' = current_call
       /\ (~account /\ mode # "demo")
             => /\ Len(history') = Len(history)
                /\ Len(calls') = Len(calls)
                /\ \A t \in Callers : pc'[t] = "idle"]_vars

\* an unregistered client has just refused a call: None returned, error
\* answered, and neither a row nor a session exists
C38_Witness ==
    /\ ~account
    /\ mode \in {"real", "disabled"}
    /\ ret[1] = "None"
    /\ http = 500
    /\ history = <<>>
    /\ calls = <<>>
    /\ current_call = None

\* the characters of s are the first characters of b: s has the runs of b
\* up to its last one, which may stop inside a word of b
FirstCharsOf(s, b) ==
    \/ s = <<>>
    \/ /\ Len(s) <= Len(b)
       /\ \A i \in 1..(Len(s) - 1) : s[i] = b[i]
       /\ \/ s[Len(s)] = b[Len(s)]
          \/ /\ s[Len(s)] > 0
             /\ s[Len(s)] < b[Len(s)]

\* s is exactly the first min(len(b), k) characters of b
CutTo(s, b, k) ==
    /\ FirstCharsOf(s, b)
    /\ TextLen(s) = (IF TextLen(b) < k THEN TextLen(b) ELSE k)

\* C40: the text handed to the sentiment backend is exactly the first
\* min(len, 512) characters of the transcript, the text handed to the
\* summarization backend exactly the first min(len, 1024) characters, and
\* whether the summarization backend is called at all is decided by the
\* word count of the whole transcript, not of the cut one.
C40_BackendsGetTruncatedText ==
    /\ (last.fn = "analyze_sentiment" /\ ai.sentiment_analyzer = "pipeline"
            /\ Truthy(last.text))
           => /\ last.result.sent.set
              /\ CutTo(last.result.sent.body, last.text.body, SentimentCap)
    /\ (last.fn = "generate_summary" /\ ai.summarizer = "pipeline"
            /\ Truthy(last.text))
           => IF WordCount(last.text.body) >= SummaryMinWords
              THEN /\ last.result.sent.set
                   /\ CutTo(last.result.sent.body, last.text.body,
                            SummaryCap)
              ELSE /\ ~last.result.sent.set
                   /\ last.result.ret = TooShort

\* a transcript of 50 words and more than 1024 characters went to the
\* summarizer: 1024 characters were sent, fewer than 50 words of them
C40_Witness ==
    /\ last.fn = "generate_summary"
    /\ WordCount(last.text.body) >= SummaryMinWords
    /\ TextLen(last.text.body) > SummaryCap
    /\ last.result.sent.set
    /\ TextLen(last.result.sent.body) = SummaryCap
    /\ WordCount(last.result.sent.body) < SummaryMinWords

====
